---------------------------- MODULE Spec2Model ----------------------------
(***************************************************************************)
(* Encounter generation core of collision_modeling/visualization:          *)
(*   flights.py                  FlightPath, Flight                         *)
(*   discrete_sampling_model.py  make_flight_path_along_x, make_flight,     *)
(*                               make_parallel_paths                        *)
(*   reich_model.py              deviation_path, make_parallel_paths        *)
(*   vizmath.py                  compute_sigma, compute_volume_size         *)
(*                                                                         *)
(* Numbers.  The program computes with Python floats, IEEE-754 binary64.   *)
(* The model computes the same values: a float is <<s, e, hi, lo>>, the    *)
(* sign s in {-1, 0, 1} times the 53-bit significand hi * 2^27 + lo        *)
(* (hi in [2^25, 2^26), lo < 2^27) times 2^e; zero is <<0, 0, 0, 0>> (the  *)
(* two zeros of binary64 compare equal and are one value here).  Every     *)
(* operation rounds to nearest, ties to even, as the hardware does.  The   *)
(* values of the model stay far from overflow and underflow, so there are  *)
(* no infinities, NaNs or subnormals; a division by zero is a step of its  *)
(* own where the code can make one.  TLC integers are 32-bit:              *)
(* a significand is held in limbs and never as one number.  A Panda3D      *)
(* Point3 holds its components in single precision (binary32), as the      *)
(* default build does: what is stored in a Point3, and what Point3         *)
(* arithmetic returns, is rounded to 24 significant bits (F32), and is a   *)
(* Python float again, of that value, when read back.                      *)
(*                                                                         *)
(* Random sources.  A random.Random is modelled by the sequence of values  *)
(* its calls have returned.  r.gauss(mu, sigma) returns mu + z * sigma:    *)
(* exactly mu when sigma = 0, and any value when sigma > 0 (the normal     *)
(* distribution has full support), of which the model enumerates           *)
(* mu + d for d in GaussDev.  r.uniform(a, b) returns a + (b-a) * u for    *)
(* the raw u in [0, 1) drawn from UniformRaw.  A descriptor's r is "none"  *)
(* (None: the process-wide default source is used), "own" (a               *)
(* random.Random, whose gauss returns a numpy float when given a numpy     *)
(* sigma) or "scripted" (a source whose gauss returns a Python float       *)
(* whatever its arguments, as a subclass that replays recorded values      *)
(* does).  Nothing in the program seeds a source or puts one back in an    *)
(* earlier state: a call draws from its source as the calls before left   *)
(* it.                                                                     *)
(***************************************************************************)
EXTENDS Integers, Sequences, FiniteSets, TLC

----------------------------------------------------------------------------
(* IEEE-754 binary64 arithmetic: Python's float +, -, *, /, <, %,           *)
(* math.sqrt and float(int).                                                *)

LimbBase == 134217728
HiTop == 67108864
HiLow == 33554432
ExtBits == 56

P2(k) == 2 ^ k

RZero == << 0, 0, 0, 0 >>

IsZero(a) == a[1] = 0

RECURSIVE BitLen(_)
BitLen(n) == IF n = 0 THEN 0 ELSE 1 + BitLen(n \div 2)

\* bits of the magnitude hi * 2^27 + lo
MagLen(hi, lo) ==
    IF hi >= 536870912 THEN ExtBits + 1
    ELSE IF hi >= 268435456 THEN ExtBits
    ELSE IF hi >= 134217728 THEN ExtBits - 1
    ELSE IF hi = 0 THEN BitLen(lo)
    ELSE 27 + BitLen(hi)

\* (hi * 2^27 + lo) shifted right by k >= 0, with the "bits were lost" flag
ShiftRight(hi, lo, k) ==
    IF k = 0 THEN << hi, lo, FALSE >>
    ELSE IF k <= 27
    THEN << hi \div P2(k), (lo \div P2(k)) + (hi % P2(k)) * P2(27 - k),
            lo % P2(k) # 0 >>
    ELSE IF k <= 57
    THEN << 0, hi \div P2(k - 27), (hi % P2(k - 27) # 0) \/ lo # 0 >>
    ELSE << 0, 0, hi # 0 \/ lo # 0 >>

\* the low limb with lost bits kept as a sticky lowest bit
Sticky(lo, lost) == IF lost /\ lo % 2 = 0 THEN lo + 1 ELSE lo

\* a result << hi, lo, lost >> of ShiftRight as a sticky magnitude
StickyPair(v) == << v[1], Sticky(v[2], v[3]) >>

\* the shift right with the lost bits kept as a sticky lowest bit
ShiftSticky(hi, lo, k) == StickyPair(ShiftRight(hi, lo, k))

\* (hi * 2^27 + lo) shifted left by k >= 0; the result has at most 56 bits
ShiftLeft(hi, lo, k) ==
    IF k = 0 THEN << hi, lo >>
    ELSE IF k < 27
    THEN << hi * P2(k) + (lo \div P2(27 - k)), (lo % P2(27 - k)) * P2(k) >>
    ELSE IF hi = 0 THEN << lo * P2(k - 27), 0 >>
    ELSE << hi * P2(k) + lo * P2(k - 27), 0 >>

\* the significand sh * 2^27 + sl of 53 bits, rounded up when the three
\* bits rem below it are above a half, or are a half and sl is odd
RoundUp(s, e, sh, sl, rem) ==
    IF ~(rem > 4 \/ (rem = 4 /\ sl % 2 = 1)) THEN << s, e, sh, sl >>
    ELSE IF sl + 1 < LimbBase THEN << s, e, sh, sl + 1 >>
    ELSE IF sh + 1 < HiTop THEN << s, e, sh + 1, 0 >>
    ELSE << s, e + 1, HiLow, 0 >>

\* the magnitude x of 56 bits split into 53 bits and the three below them
RoundBits(s, e, x) ==
    RoundUp(s, e, x[1] \div 8, (x[2] \div 8) + (x[1] % 8) * 16777216,
            x[2] % 8)

\* the magnitude hi * 2^27 + lo of n bits brought to 56 bits
Normalise(s, e, hi, lo, n) ==
    RoundBits(s, e + n - ExtBits + 3,
              IF n > ExtBits THEN ShiftSticky(hi, lo, n - ExtBits)
              ELSE ShiftLeft(hi, lo, ExtBits - n))

\* round to nearest, ties to even: the binary64 value of
\* s * (hi * 2^27 + lo) * 2^e, the lowest bit of an inexact magnitude sticky
F64Round(s, e, hi, lo) ==
    IF hi = 0 /\ lo = 0 THEN RZero
    ELSE Normalise(s, e, hi, lo, MagLen(hi, lo))

\* int -> float
R(i) ==
    LET a == IF i < 0 THEN -i ELSE i
    IN  F64Round(IF i < 0 THEN -1 ELSE 1, 0, a \div LimbBase, a % LimbBase)

RNeg(a) == << -a[1], a[2], a[3], a[4] >>

RAbs(a) == << a[1] * a[1], a[2], a[3], a[4] >>

\* |a| < |b|, both non-zero
MagLt(a, b) ==
    \/ a[2] < b[2]
    \/ a[2] = b[2] /\ (a[3] < b[3] \/ (a[3] = b[3] /\ a[4] < b[4]))

RLt(a, b) ==
    IF a[1] # b[1] THEN a[1] < b[1]
    ELSE IF a[1] = 0 THEN FALSE
    ELSE IF a[1] = 1 THEN MagLt(a, b)
    ELSE MagLt(b, a)

RLe(a, b) == a = b \/ RLt(a, b)

RMax(a, b) == IF RLt(a, b) THEN b ELSE a

RMin(a, b) == IF RLt(b, a) THEN b ELSE a

\* the significand with three extra low bits
Extended(a) == << a[3] * 8 + (a[4] \div 16777216), (a[4] % 16777216) * 8 >>

\* the digits, lowest first, of the number whose columns to the given base
\* are cols[k..], with the carry c into column k; the last entry is the
\* carry out of the top column, negative for a borrow
RECURSIVE Carry(_, _, _, _)
Carry(cols, base, k, c) ==
    IF k > Len(cols) THEN << c >>
    ELSE << (cols[k] + c) % base >>
             \o Carry(cols, base, k + 1, (cols[k] + c) \div base)

\* |x| + |y| when the signs are the same, |x| - |y| otherwise, for extended
\* significands x >= y at one exponent
AddAligned(x, y, same) ==
    IF same
    THEN << x[1] + y[1] + ((x[2] + y[2]) \div LimbBase),
            (x[2] + y[2]) % LimbBase >>
    ELSE IF x[2] >= y[2] THEN << x[1] - y[1], x[2] - y[2] >>
    ELSE << x[1] - y[1] - 1, x[2] - y[2] + LimbBase >>

\* a + b for |a| >= |b| > 0; x is the extended significand of a and y that
\* of b at the exponent of a
AddRound(a, b, x, y) ==
    F64Round(a[1], a[2] - 3, AddAligned(x, y, a[1] = b[1])[1],
             AddAligned(x, y, a[1] = b[1])[2])

\* the extended significand x shifted right by k
Aligned(x, k) == ShiftSticky(x[1], x[2], k)

\* a + b for |a| >= |b| > 0
AddOrdered(a, b) ==
    AddRound(a, b, Extended(a), Aligned(Extended(b), a[2] - b[2]))

RAdd(a, b) ==
    IF a[1] = 0 THEN b
    ELSE IF b[1] = 0 THEN a
    ELSE AddOrdered(IF MagLt(a, b) THEN b ELSE a,
                    IF MagLt(a, b) THEN a ELSE b)

RSub(a, b) == RAdd(a, RNeg(b))

\* the four 14-bit limbs of a significand
Limbs(a) ==
    << a[4] % 16384,
       (a[4] \div 16384) + (a[3] % 2) * 8192,
       (a[3] \div 2) % 16384,
       a[3] \div 32768 >>

\* the columns of the product of two significands of four limbs
MulColumns(x, y) ==
    << x[1] * y[1],
       x[1] * y[2] + x[2] * y[1],
       x[1] * y[3] + x[2] * y[2] + x[3] * y[1],
       x[1] * y[4] + x[2] * y[3] + x[3] * y[2] + x[4] * y[1],
       x[2] * y[4] + x[3] * y[3] + x[4] * y[2],
       x[3] * y[4] + x[4] * y[3],
       x[4] * y[4] >>

\* the product whose eight 14-bit digits are d, lowest first, rounded: the
\* top 56 bits with the rest sticky
MulRound(s, e, d) ==
    LET l1 == d[4] * 16384 + d[3]
        l2 == d[6] * 16384 + d[5]
    IN  F64Round(s, e, (d[8] * 16384 + d[7]) * 128 + (l2 \div 2097152),
                 Sticky((l2 % 2097152) * 64 + (l1 \div 4194304),
                        l1 % 4194304 # 0 \/ d[2] # 0 \/ d[1] # 0))

RMul(a, b) ==
    IF a[1] = 0 \/ b[1] = 0 THEN RZero
    ELSE MulRound(a[1] * b[1], a[2] + b[2] + 50,
                  Carry(MulColumns(Limbs(a), Limbs(b)), 16384, 1, 0))

\* the estimate q of a digit, with h the part of the leading limbs it leaves,
\* lowered while it is too large for the next limb d2 of the divisor, at
\* most k times
RECURSIVE DivCorrect(_, _, _, _, _, _)
DivCorrect(q, h, d3, d2, r2, k) ==
    IF k > 0 /\ h < 16384 /\ q * d2 > h * 16384 + r2
    THEN DivCorrect(q - 1, h + d3, d3, d2, r2, k - 1)
    ELSE q

\* the digit estimated from the leading limbs top, mid of the remainder and
\* the leading limb of the divisor
DivEstimate(top, mid, dm) ==
    LET d3 == dm \div 16384
        num == top * 16384 + (mid \div 16384)
        q0 == IF top >= d3 THEN 16383 ELSE num \div d3
    IN  DivCorrect(q0, num - q0 * d3, d3, dm % 16384, mid % 16384, 2)

\* the digit q and the remainder whose top limb is t and whose lower limbs
\* and borrow are r; a negative remainder takes the divisor back once
DivAddBack(q, dm, dl, t, r) ==
    IF t + r[3] >= 0 THEN << q, r[2], r[1] >>
    ELSE << q - 1,
            (r[2] + dm + ((r[1] + dl) \div 268435456)) % 268435456,
            (r[1] + dl) % 268435456 >>

\* the remainder top, mid, low less the product p of the digit and the
\* divisor, p in 14-bit digits, lowest first
DivSubtract(top, mid, low, dm, dl, q, p) ==
    DivAddBack(q, dm, dl, top - p[5],
               Carry(<< low - (p[2] * 16384 + p[1]),
                        mid - (p[4] * 16384 + p[3]) >>, 268435456, 1, 0))

\* the digit q taken from the remainder top, mid, low
DivRemainder(top, mid, low, dm, dl, q) ==
    DivSubtract(top, mid, low, dm, dl, q,
                Carry(<< q * (dl % 16384), q * (dl \div 16384),
                         q * (dm % 16384), q * (dm \div 16384) >>,
                      16384, 1, 0))

\* One digit, base 2^14, of the long division of significands: the
\* remainder rm * 2^28 + rl (below the divisor) is shifted up by a digit and
\* divided by the divisor dm * 2^28 + dl, whose top bit of 56 is set.  The
\* digit is estimated from the leading limbs and corrected.  The result is
\* << digit, remainder mid, remainder low >>.
DivDigit(rm, rl, dm, dl) ==
    LET top == rm \div 16384
        mid == (rm % 16384) * 16384 + (rl \div 16384)
    IN  DivRemainder(top, mid, (rl % 16384) * 16384, dm, dl,
                     DivEstimate(top, mid, dm))

\* k more digits of the long division after st = << digit, remainder mid,
\* remainder low >>: << the digits with qs before them, the remainder >>
RECURSIVE LongDivision(_, _, _, _, _)
LongDivision(k, qs, st, dm, dl) ==
    IF k = 0 THEN << Append(qs, st[1]), st[2], st[3] >>
    ELSE LongDivision(k - 1, Append(qs, st[1]),
                      DivDigit(st[2], st[3], dm, dl), dm, dl)

\* the quotient of 57 bits: the leading bit ge, the four digits r[1][2..5]
\* and the remainder r[2], r[3] as the sticky bit
DivRound(s, e, ge, r) ==
    LET ul == r[1][4] * 16384 + r[1][5]
    IN  F64Round(s, e,
                 (IF ge THEN 536870912 ELSE 0)
                     + (r[1][2] * 16384 + r[1][3]) * 2 + (ul \div LimbBase),
                 Sticky(ul % LimbBase, r[2] # 0 \/ r[3] # 0))

\* the extended significand x as two limbs of 28 bits
Halved(x) == << x[1] \div 2, (x[1] % 2) * LimbBase + x[2] >>

\* the quotient of the significands n by d, each two limbs of 28 bits
DivSignificands(s, e, n, d) ==
    LET ge == n[1] > d[1] \/ (n[1] = d[1] /\ n[2] >= d[2])
        rl == IF ge THEN n[2] - d[2] ELSE n[2]
    IN  DivRound(s, e, ge,
                 LongDivision(4, << >>,
                              << 0,
                                 IF ~ge THEN n[1]
                                 ELSE IF rl < 0 THEN n[1] - d[1] - 1
                                 ELSE n[1] - d[1],
                                 IF rl < 0 THEN rl + 268435456 ELSE rl >>,
                              d[1], d[2]))

\* a / b, b non-zero; a power of two divides exactly
RDiv(a, b) ==
    IF a[1] = 0 THEN RZero
    ELSE IF b[3] = HiLow /\ b[4] = 0
    THEN << a[1] * b[1], a[2] - b[2] - 52, a[3], a[4] >>
    ELSE DivSignificands(a[1] * b[1], a[2] - b[2] - 56,
                         Halved(Extended(a)), Halved(Extended(b)))

\* the float nearest n / d, a decimal literal or a quotient of two ints
Q(n, d) == RDiv(R(n), R(d))

ROne == << 1, -52, 33554432, 0 >>

RHalf == << 1, -53, 33554432, 0 >>

\* a % b for a >= 0 and b > 0: every subtraction is exact
RECURSIVE RMod(_, _)
RMod(a, b) ==
    IF RLt(a, b) THEN a
    ELSE LET c == << 1, a[2], b[3], b[4] >>
         IN  RMod(RSub(a, IF RLe(c, a) THEN c
                          ELSE << 1, a[2] - 1, b[3], b[4] >>), b)

\* the integer square root of n < 2^28, by Newton's iteration from above
RECURSIVE ISqrt(_, _)
ISqrt(n, x) ==
    LET y == (x + (n \div x)) \div 2
    IN  IF y < x THEN ISqrt(n, y) ELSE x

\* the quotient and remainder of rem * 4^k by d, two bits at a time, for
\* rem <= d < 2^29: st = << steps left, quotient, remainder >>
RECURSIVE DivQuads(_, _)
DivQuads(st, d) ==
    IF st[1] = 0 THEN st
    ELSE DivQuads(<< st[1] - 1, 4 * st[2] + ((4 * st[3]) \div d),
                     (4 * st[3]) % d >>, d)

\* the square of qh * 2^14 + ql as << high, low >> limbs of 28 bits
SqrtSquare(qh, ql) ==
    LET cross == 2 * qh * ql
        sqlo == ql * ql + (cross % 16384) * 16384
    IN  << qh * qh + (cross \div 16384) + (sqlo \div 268435456),
           sqlo % 268435456 >>

\* the root 2 * s1 * 2^27 + q of 56 bits, q lowered by one when its square
\* sq exceeds the remainder qu[3] * 2^28 left by the division
SqrtRound(e, s1, qu, sq) ==
    LET neg == sq[1] > qu[3] \/ (sq[1] = qu[3] /\ sq[2] > 0)
        q == IF neg THEN qu[2] - 1 ELSE qu[2]
    IN  F64Round(1, e, 2 * s1 + (q \div LimbBase),
                 Sticky(q % LimbBase, neg \/ sq[1] # qu[3] \/ sq[2] # 0))

\* the low 28 bits of the root: the remainder rem1 of the leading root s1
\* divided by 2 * s1
SqrtLow(e, s1, qu) ==
    SqrtRound(e, s1, qu, SqrtSquare(qu[2] \div 16384, qu[2] % 16384))

\* the root s1 of 28 bits from the root s2 of 14 bits, the next digit q1 and
\* what it leaves, r1
SqrtLead(e, s1, r1) ==
    SqrtLow(e, s1,
            DivQuads(<< 14, 0, IF r1 < 0 THEN r1 + 2 * s1 + 1 ELSE r1 >>,
                     2 * s1))

\* the digit q1 after the root s2 of the leading 28 bits, n1 the remainder
\* with the next 14 bits of the significand
SqrtDigit(e, low, s2, n1, q1) ==
    LET r1 == (n1 % (2 * s2)) * 16384 + (low % 16384) - q1 * q1
    IN  SqrtLead(e, IF r1 < 0 THEN s2 * 16384 + q1 - 1 ELSE s2 * 16384 + q1, r1)

\* the root s2 of the leading 28 bits top of the significand
SqrtTop(e, top, low, s2) ==
    SqrtDigit(e, low, s2, (top - s2 * s2) * 16384 + (low \div 16384),
              ((top - s2 * s2) * 16384 + (low \div 16384)) \div (2 * s2))

\* the significand mh * 2^27 + ml at an even exponent
SqrtSignificand(e, mh, ml) ==
    SqrtTop(e, 2 * mh + (ml \div 67108864), (ml % 67108864) * 4,
            ISqrt(2 * mh + (ml \div 67108864), 16384))

\* math.sqrt(a), a >= 0: the integer square root of the significand scaled
\* to 112 bits, a root of 28 bits from the leading 56 extended to 56 bits by
\* a division, with the "inexact" flag
RSqrt(a) ==
    IF a[1] = 0 THEN RZero
    ELSE SqrtSignificand(
             ((IF a[2] % 2 = 0 THEN a[2] ELSE a[2] - 1) - 58) \div 2,
             IF a[2] % 2 = 0 THEN a[3] ELSE 2 * a[3] + (a[4] \div 67108864),
             IF a[2] % 2 = 0 THEN a[4] ELSE (a[4] % 67108864) * 2)

----------------------------------------------------------------------------
(* numpy arrays of waypoints: a sequence of rows <<t, x, y, z>>.            *)

Column(m, c) == [i \in 1..Len(m) |-> m[i][c]]

\* FlightPath.offset, lines 32-36: the in-place column additions on the copy.
OffsetTxyz(m, dt, dx, dy, dz) ==
    [i \in 1..Len(m) |->
        << RAdd(m[i][1], dt), RAdd(m[i][2], dx),
           RAdd(m[i][3], dy), RAdd(m[i][4], dz) >>]

\* ScaleTxyz with the columns added to, as offset does, instead of multiplied.
ScaleByAdding(m, ft, fx, fy, fz) ==
    [i \in 1..Len(m) |->
        << RAdd(m[i][1], ft), RAdd(m[i][2], fx),
           RAdd(m[i][3], fy), RAdd(m[i][4], fz) >>]

\* FlightPath.scale, lines 48-52: the in-place column multiplications.
ScaleTxyz(m, ft, fx, fy, fz) ==
    [i \in 1..Len(m) |->
        << RMul(m[i][1], ft), RMul(m[i][2], fx),
           RMul(m[i][3], fy), RMul(m[i][4], fz) >>]

\* numpy's search inside np.interp for xp[1] <= x <= xp[Len]: the linear
\* scan "for (i = 1; i < len && key >= arr[i]; ++i); return i - 1", here
\* 1-based: the last j such that every xp[2..j] <= x.
RECURSIVE InterpScan(_, _, _)
InterpScan(x, xp, i) ==
    IF i <= Len(xp) /\ RLe(xp[i], x) THEN InterpScan(x, xp, i + 1) ELSE i - 1

\* Interp holding the value of the knot before x instead of interpolating.
InterpHold(x, xp, fp) ==
    LET n == Len(xp) IN
    IF RLt(xp[n], x) THEN fp[n]
    ELSE IF RLt(x, xp[1]) THEN fp[1]
    ELSE fp[InterpScan(x, xp, 2)]

\* np.interp(x, xp, fp) with the default left = fp[first], right = fp[last].
Interp(x, xp, fp) ==
    LET n == Len(xp) IN
    IF RLt(xp[n], x) THEN fp[n]
    ELSE IF RLt(x, xp[1]) THEN fp[1]
    ELSE LET j == InterpScan(x, xp, 2) IN
         IF j = n THEN fp[j]
         ELSE IF xp[j] = x THEN fp[j]
         ELSE LET slope == RDiv(RSub(fp[j + 1], fp[j]), RSub(xp[j + 1], xp[j]))
              IN  RAdd(RMul(slope, RSub(x, xp[j])), fp[j])

----------------------------------------------------------------------------
(* panda3d Point3: single-precision components.                             *)

\* The binary32 value nearest the float a: its significand rounded to 24
\* bits, ties to even.  The 29 bits dropped are the low two of hi and lo.
F32(a) ==
    IF a[1] = 0 THEN RZero
    ELSE LET kept == a[3] \div 4
             dropped == (a[3] % 4) * LimbBase + a[4]
             up == dropped > 2 * LimbBase
                     \/ (dropped = 2 * LimbBase /\ kept % 2 = 1)
         IN  IF ~up THEN << a[1], a[2], kept * 4, 0 >>
             ELSE IF (kept + 1) * 4 < HiTop THEN << a[1], a[2], (kept + 1) * 4, 0 >>
             ELSE << a[1], a[2] + 1, HiLow, 0 >>

\* Point3(px, py, pz)
Point3(px, py, pz) == << F32(px), F32(py), F32(pz) >>

\* Point3 + Point3, Point3 - Point3, Point3 / float, per component.
P3Add(a, b) == Point3(RAdd(a[1], b[1]), RAdd(a[2], b[2]), RAdd(a[3], b[3]))
P3Sub(a, b) == Point3(RSub(a[1], b[1]), RSub(a[2], b[2]), RSub(a[3], b[3]))
P3Div(a, k) == Point3(RDiv(a[1], k), RDiv(a[2], k), RDiv(a[3], k))

\* FlightPath.location_at: one np.interp per axis against the time column,
\* returned as a Point3.
LocationAt(m, t) ==
    Point3(Interp(t, Column(m, 1), Column(m, 2)),
           Interp(t, Column(m, 1), Column(m, 3)),
           Interp(t, Column(m, 1), Column(m, 4)))

\* FlightPath.t_max: self._txyz[-1, 0].
TMax(m) == m[Len(m)][1]

----------------------------------------------------------------------------
(* vizmath.py                                                               *)

\* math.pow(0.95, 1 / 2): the float 0.9746794344808963, which is also the
\* correctly rounded square root of the float 0.95.
PowOneAxis == << 1, -53, 65409629, 82164789 >>

\* scipy's norm.ppf, the standard-normal quantile (Cephes ndtri), tabulated
\* at the arguments 1 - (1 - p) / 2 of the containment fractions p in use:
\* the float it returns at each.
NormPpf(q) ==
    CASE q = << 1, -53, 66259246, 108191258 >>      \* 0.9873397172404481, p = 0.95 ^ (1/2)
            -> << 1, -51, 37521851, 99952111 >>     \* 2.2364766445577895
      [] q = << 1, -53, 66773319, 91268055 >>     \* 0.995, p = 0.99
            -> << 1, -51, 43215244, 81170784 >>     \* 2.5758293035489004
      [] q = << 1, -53, 65431142, 53687091 >>      \* 0.975, p = 0.95
            -> << 1, -52, 65765478, 32440196 >>     \* 1.959963984540054
      [] q = << 1, -53, 63753420, 107374182 >>      \* 0.95, p = 0.9
            -> << 1, -52, 55192129, 23554747 >>     \* 1.6448536269514722
      [] q = << 1, -53, 60397977, 80530637 >>      \* 0.9, p = 0.8
            -> << 1, -52, 43001734, 115502386 >>    \* 1.2815515655446004
      [] q = << 1, -53, 50331648, 0 >>             \* 0.75, p = 0.5
            -> << 1, -53, 45264240, 122849865 >>    \* 0.6744897501960817

\* 1 - (1 - p_containment) / 2
PpfArg(p) == RSub(ROne, RDiv(RSub(ROne, p), R(2)))

compute_sigma(volume_size, p_containment) ==
    RDiv(RDiv(volume_size, R(2)), NormPpf(PpfArg(p_containment)))

\* compute_volume_size without the factor 2: the half-width, not the width.
VolumeHalfSize(sigma, p_containment) ==
    RMul(sigma, NormPpf(PpfArg(p_containment)))

compute_volume_size(sigma, p_containment) ==
    RMul(RMul(R(2), sigma), NormPpf(PpfArg(p_containment)))

\* the float 0.3048
M_PER_FT == << 1, -54, 40909563, 66357245 >>

----------------------------------------------------------------------------
(* Random sources.                                                          *)

\* The deviations from the mean that the model enumerates for a gauss draw
\* with sigma > 0.
GaussDev == { R(-2), R(1) }

\* The raw values in [0, 1) that the model enumerates for random().
UniformRaw == { R(0), Q(1, 4), Q(9, 16), Q(3, 4) }

\* The values r.gauss(mu, sigma) can return: mu + z * sigma.
GaussOutcomes(mu, sigma) ==
    IF IsZero(sigma) THEN { mu } ELSE { RAdd(mu, d) : d \in GaussDev }

\* The values r.uniform(a, b) can return: a + (b - a) * random().
UniformOutcomes(a, b) == { RAdd(a, RMul(RSub(b, a), u)) : u \in UniformRaw }

\* One returned value, as the random source's history records it.
Draw(kind, site, val) == [kind |-> kind, site |-> site, val |-> val]

----------------------------------------------------------------------------
(* The state.                                                               *)

VARIABLES
    pc,         \* "idle", "dsm_loop" (inside make_flight_path_along_x),
                \* "done" (make_parallel_paths returned), "raised"
    call,       \* the running or finished invocation: [fn, arg, enc], and
                \* ysq, what math.pow(YS_y, 2) gave, once a Reich call got there
    fno,        \* discrete model: which make_flight call is running (1, 2)
    m,          \* make_flight_path_along_x: the list m of key points
    t,          \* make_flight_path_along_x: the local t
    x,          \* make_flight_path_along_x: the local x
    path_dt,    \* make_flight_path_along_x: the parameter dt
    path_dx,    \* make_flight_path_along_x: the parameter dx
    flights,    \* the Flights built so far; the returned list once pc = "done"
    err,        \* the exception that ended the call, or "none"
    own_draws,  \* values returned so far by the descriptor's own source r
    sys_draws,  \* values returned so far by the process-wide default source
    first,      \* what the invocation before the running or finished one
                \* returned: [done |-> FALSE] when there was none, or its call,
                \* pc, err, flights, and own_draws, sys_draws as it left them
    arrays,     \* the numpy arrays allocated so far, by identity
    paths,      \* the FlightPath objects made so far: [_txyz |-> array identity]
    derived,    \* per FlightPath object, how it was made (history)
    loc,        \* the last location_at / t_max call and what it returned
    viz         \* the vizmath calls made so far, oldest first: [fn, arg, p, result]

vars == << pc, call, fno, m, t, x, path_dt, path_dx, flights, err, own_draws, sys_draws,
           first, arrays, paths, derived, loc, viz >>

modelVars == << pc, call, fno, m, t, x, path_dt, path_dx, flights, err, own_draws, sys_draws,
                first >>
pathVars == << arrays, paths, derived, loc >>

NoCall == [fn |-> "none"]

\* Flight(path=..., op_intent=(lower, upper), size=...)
Flight(path, lower, upper, size) ==
    [path |-> path, op_intent |-> << lower, upper >>, size |-> size]

\* No call is running or has ended, and none was made before: a call can be
\* made with any argument.
Fresh == pc = "idle" /\ ~first.done

\* The arguments of the call of model fn that follows an ended one: the same
\* argument again.
Repeated(fn) ==
    IF pc = "idle" /\ first.done /\ first.call.fn = fn
    THEN { first.call.arg }
    ELSE { }

\* r = encounter.r or random, as the history of what it returned to the
\* invocation before, which found it new.
FirstLog(enc) == IF enc.r # "none" THEN first.own_draws ELSE first.sys_draws

\* r = encounter.r or random, as the history of what it has returned since
\* the invocation began: the source goes on from where the invocation
\* before left it.
SourceLog(enc) ==
    LET log == IF enc.r # "none" THEN own_draws ELSE sys_draws
        before == IF first.done THEN Len(FirstLog(enc)) ELSE 0
    IN  SubSeq(log, before + 1, Len(log))

\* The values the model enumerates for the next value the call's source
\* returns, to the call of kind made at site, which can return any of
\* those in any, after it has returned the values of prior since the
\* invocation began.  In a first invocation: all of them.  In the invocation
\* after it the source has gone on and can return what it returned to the
\* invocation before or anything else: the model enumerates the value the
\* invocation before got at this draw, as long as every draw so far has
\* repeated that invocation's, and the least other value of any.
Returned(enc, prior, kind, site, any) ==
    LET n == Len(prior) + 1
        before == FirstLog(enc)
    IN  IF /\ first.done
           /\ n <= Len(before)
           /\ before[n].kind = kind
           /\ before[n].site = site
        THEN { v \in any :
                  \/ /\ v = before[n].val
                     /\ \/ any = { v }
                        \/ \A j \in 1..Len(prior) : prior[j] = before[j].val
                  \/ /\ v # before[n].val
                     /\ \A w \in any \ { before[n].val } : RLe(v, w) }
        ELSE any

\* The values the source the call draws from has returned since the
\* invocation began, oldest first.
SourceValues ==
    LET log == SourceLog(call.enc)
    IN  [i \in 1..Len(log) |-> log[i].val]

\* r = encounter.r or random: the draws go to the descriptor's source when it
\* has one, else to the process-wide default source.
Drawn(enc, ds) ==
    IF enc.r # "none"
    THEN own_draws' = own_draws \o ds /\ UNCHANGED sys_draws
    ELSE sys_draws' = sys_draws \o ds /\ UNCHANGED own_draws



----------------------------------------------------------------------------
(* reich_model.py: encounter descriptors.                                   *)

\* standard_parallel_paths_descriptor(), with the random source r.
StandardReich(r) ==
    [ S_y |-> RMul(R(15), M_PER_FT),
      lambda_x |-> RMul(R(2), M_PER_FT),
      lambda_y |-> RMul(R(2), M_PER_FT),
      lambda_z |-> RMul(R(2), M_PER_FT),
      w |-> RMul(R(7), M_PER_FT),
      h |-> RMul(R(7), M_PER_FT),
      t |-> R(3600),
      v |-> RMul(R(20), M_PER_FT),
      delta_v |-> RMul(R(5), M_PER_FT),
      YS_y |-> RMul(Q(31, 4), M_PER_FT),
      delta_z |-> RMul(Q(31, 4), M_PER_FT),
      r |-> r ]

\* A small descriptor: unit aircraft, speed 2.
SmallReich(S_y, delta_v, r) ==
    [ S_y |-> R(S_y), lambda_x |-> R(1), lambda_y |-> R(1), lambda_z |-> R(1),
      w |-> R(1), h |-> R(1), t |-> R(10), v |-> R(2), delta_v |-> R(delta_v),
      YS_y |-> R(1), delta_z |-> R(1), r |-> r ]

\* A small descriptor with a wide operational volume: unit aircraft, speed 2,
\* no random source of its own.
WideReich(S_y, delta_v, w, h) ==
    [ S_y |-> R(S_y), lambda_x |-> R(1), lambda_y |-> R(1), lambda_z |-> R(1),
      w |-> R(w), h |-> R(h), t |-> R(10), v |-> R(2), delta_v |-> R(delta_v),
      YS_y |-> R(1), delta_z |-> R(1), r |-> "none" ]

\* An Optional descriptor argument: None, or a descriptor.
NoEncounter == [given |-> FALSE]
Encounter(enc) == [given |-> TRUE, enc |-> enc]

\* line 92: encounter = encounter or standard_parallel_paths_descriptor()
ReichEncounter(arg) == IF arg.given THEN arg.enc ELSE StandardReich("none")

----------------------------------------------------------------------------
(* discrete_sampling_model.py                                               *)

MaxTimeLength == 2      \* descriptors have time_length in 0..MaxTimeLength
MaxRandomDraws == 4     \* sigma > 0 draws per generated path, at most
ScenarioTimeLength == 5 \* time_length = 5, the horizon make_parallel_paths_descriptor sets

\* make_flight_path_along_x, line 101: while t < time_length.  Before the
\* first pass t is -dt; after it t is the float the additions of line 102
\* have accumulated, which can fall short of k * dt: ten additions of 0.1
\* give 0.9999999999999999.
LoopContinues(tt, time_length) == RLt(tt, time_length)

\* The passes the loop still makes from t = tt on, lines 101-102.
RECURSIVE PassesFrom(_, _, _)
PassesFrom(tt, dt, time_length) ==
    IF LoopContinues(tt, time_length)
    THEN 1 + PassesFrom(RAdd(tt, dt), dt, time_length)
    ELSE 0

\* Key points make_flight_path_along_x generates: one per pass until the
\* loop condition fails, from t = -dt of line 100.
StepsToReach(dt, time_length) == PassesFrom(RNeg(dt), dt, time_length)

RandomAxes(sigma) ==
    Cardinality({ c \in 1..3 : ~IsZero(sigma[c]) })

\* The discrete-sampling descriptors the model enumerates: same-direction
\* and opposite-direction ground speeds, dt = 1/2, 3/4, 2 and 1/10 (0.1 is
\* not a binary fraction, 1/2, 3/4 and 2 are), deviations on no axis, on y
\* only, and on x and z.
DsmEncounters ==
    { e \in [ time_length : { R(k) : k \in 0..MaxTimeLength } \cup { R(ScenarioTimeLength) },
              v1_ground : { R(1), R(-2) },
              v2_ground : { Q(1, 2), R(-1) },
              lateral_separation : { R(2) },
              aircraft_size : { Point3(R(1), R(1), R(1)) },
              sampling_frequency : { R(2), Q(4, 3), Q(1, 2), R(10) },
              sigma : { Point3(R(0), R(0), R(0)),
                        Point3(R(0), R(1), R(0)),
                        Point3(Q(1, 2), R(0), R(1)) },
              r : { "none", "own" } ] :
        RandomAxes(e.sigma)
          * StepsToReach(RDiv(ROne, e.sampling_frequency), e.time_length)
            <= MaxRandomDraws }

\* infer_caffeination, lines 42-48: the columns of k_table.
\* 0.8, 0.9, 0.95, 0.99, 0.999
KTableFraction ==
    << << 1, -53, 53687091, 26843546 >>,
       << 1, -53, 60397977, 80530637 >>,
       << 1, -53, 63753420, 107374182 >>,
       << 1, -53, 66437775, 48318382 >>,
       << 1, -53, 67041755, 18253611 >> >>
\* 0.633, 0.579, 0.554, 0.531, 0.52
KTableK ==
    << << 1, -53, 42479910, 122406568 >>,
       << 1, -53, 38856032, 34359738 >>,
       << 1, -53, 37178310, 88046830 >>,
       << 1, -53, 35634806, 105226699 >>,
       << 1, -53, 34896609, 37580964 >> >>

infer_caffeination(fraction_inside_bound, average_speed_at_bound_exit, bound_size) ==
    LET k == Interp(fraction_inside_bound, KTableFraction, KTableK)
    IN  RDiv(RMul(k, bound_size), average_speed_at_bound_exit)

\* make_parallel_paths_descriptor with sigma from the half-widths w and h
\* instead of the full widths 2 * w and 2 * h.
DescriptorFromHalfWidths(arg) ==
    LET reich == ReichEncounter(arg)
        dt_y == infer_caffeination(PowOneAxis, reich.YS_y, RMul(R(2), reich.w))
        dt_z == infer_caffeination(PowOneAxis, reich.delta_z, RMul(R(2), reich.h))
        dt == RMin(dt_y, dt_z)
    IN  [ time_length |-> R(ScenarioTimeLength),
          v1_ground |-> reich.v,
          v2_ground |-> RSub(reich.v, reich.delta_v),
          lateral_separation |-> reich.S_y,
          aircraft_size |-> Point3(reich.lambda_x, reich.lambda_y, reich.lambda_z),
          sampling_frequency |-> RDiv(ROne, dt),
          sigma |-> Point3(RZero,
                           compute_sigma(reich.w, PowOneAxis),
                           compute_sigma(reich.h, PowOneAxis)),
          r |-> "none" ]

\* make_parallel_paths_descriptor(reich), lines 57-76; the descriptor it
\* returns has no random source of its own.
make_parallel_paths_descriptor(arg) ==
    LET reich == ReichEncounter(arg)
        op_intent_width == RMul(R(2), reich.w)
        op_intent_height == RMul(R(2), reich.h)
        p_one_axis == PowOneAxis
        dt_y == infer_caffeination(p_one_axis, reich.YS_y, RMul(R(2), reich.w))
        dt_z == infer_caffeination(p_one_axis, reich.delta_z, RMul(R(2), reich.h))
        dt == RMin(dt_y, dt_z)
    IN  [ time_length |-> R(ScenarioTimeLength),
          v1_ground |-> reich.v,
          v2_ground |-> RSub(reich.v, reich.delta_v),
          lateral_separation |-> reich.S_y,
          aircraft_size |-> Point3(reich.lambda_x, reich.lambda_y, reich.lambda_z),
          sampling_frequency |-> RDiv(ROne, dt),
          sigma |-> Point3(RZero,
                           compute_sigma(op_intent_width, p_one_axis),
                           compute_sigma(op_intent_height, p_one_axis)),
          r |-> "none" ]

\* The Reich descriptors the model derives discrete-sampling descriptors
\* from: wide ones, whose caffeination interval is 3.2 to 6.5 against the
\* time_length of 5, the last with a half-width that is not a binary fraction.
DerivableReich ==
    { Encounter(WideReich(2, dv, wh[1], wh[2])) :
          dv \in { 1, 3 },
          wh \in { << 5, 5 >>, << 5, 6 >>, << 6, 5 >>, << 3, 3 >> } }
        \cup { Encounter([WideReich(2, 1, 3, 3) EXCEPT
                              !.w = << 1, -51, 60397977, 80530637 >>]) }    \* w = 3.6

\* The arguments make_parallel_paths is called with: None (the call viz.py
\* makes), the enumerated descriptors and the ones derived from Reich
\* descriptors.
DsmArgs ==
    { NoEncounter }
        \cup { Encounter(e) : e \in DsmEncounters }
        \cup { Encounter(make_parallel_paths_descriptor(a)) : a \in DerivableReich }

\* line 133: encounter = encounter or make_parallel_paths_descriptor()
DsmEncounter(arg) ==
    IF arg.given THEN arg.enc ELSE make_parallel_paths_descriptor(NoEncounter)

\* The values the model enumerates for a gauss draw of the n-th key point of
\* a path: those of GaussOutcomes while the path's draws with sigma > 0 stay
\* within MaxRandomDraws, and mu + 1 alone after that.
PathGaussOutcomes(enc, n, mu, sigma) ==
    IF RandomAxes(enc.sigma) * n <= MaxRandomDraws THEN GaussOutcomes(mu, sigma)
    ELSE IF IsZero(sigma) THEN { mu }
    ELSE { RAdd(mu, ROne) }

\* make_parallel_paths, lines 139/148 and 141/150: the arguments of the
\* k-th make_flight call.
GroundSpeed(enc, k) == IF k = 1 THEN enc.v1_ground ELSE enc.v2_ground
LateralPosition(enc, k) ==
    IF k = 1 THEN RDiv(RNeg(enc.lateral_separation), R(2))
    ELSE RDiv(enc.lateral_separation, R(2))

\* make_flight, lines 117-119.
PathLength(enc, k) == RMul(enc.time_length, GroundSpeed(enc, k))
StepDt(enc) == RDiv(ROne, enc.sampling_frequency)
StepDx(enc, k) == RMul(GroundSpeed(enc, k), StepDt(enc))

\* Truncate left out: the last key point stays where the loop put it.
Untruncated(mm, time_length, step) == mm

\* make_flight_path_along_x, lines 110-111: the last key point moved back onto
\* time_length, blending all four columns of the last two key points.
Truncate(mm, time_length, step) ==
    LET n == Len(mm)
        f == RDiv(RSub(time_length, mm[n - 1][1]), step)
        last == [c \in 1..4 |->
                    RAdd(RMul(f, mm[n][c]), RMul(RSub(ROne, f), mm[n - 1][c]))]
    IN  [mm EXCEPT ![n] = last]

\* make_flight, lines 120-127, given the key points mm the loop generated.
MakeFlight(enc, k, mm) ==
    LET path_length == PathLength(enc, k)
        lateral_position == LateralPosition(enc, k)
        path == OffsetTxyz(Truncate(mm, enc.time_length, StepDt(enc)),
                           RZero, RDiv(RNeg(path_length), R(2)),
                           lateral_position, RZero)
        center == Point3(RZero, lateral_position, RZero)
        op_intent_size ==
            Point3(RAdd(RAdd(path_length, RMul(R(2 * 4), enc.sigma[1])),
                        enc.aircraft_size[1]),
                   compute_volume_size(enc.sigma[2], PowOneAxis),
                   compute_volume_size(enc.sigma[3], PowOneAxis))
    IN  Flight(path,
               P3Sub(center, P3Div(op_intent_size, R(2))),
               P3Add(center, P3Div(op_intent_size, R(2))),
               enc.aircraft_size)

\* WaypointDraws with the longitudinal deviation drawn first.
WaypointDrawsXFirst(y, z, x_dev) ==
    << Draw("gauss", "x_dev", x_dev), Draw("gauss", "y", y), Draw("gauss", "z", z) >>

\* make_flight_path_along_x, lines 104-106: the draws of one waypoint, in
\* call order.
WaypointDraws(y, z, x_dev) ==
    << Draw("gauss", "y", y), Draw("gauss", "z", z), Draw("gauss", "x_dev", x_dev) >>

\* InitialKeyPoints with the list of the call before kept: the key points
\* of a list shared between the calls.
KeyPointsKept(mm) == mm

\* make_flight_path_along_x, line 99: m = [], whatever list mm an earlier
\* call built.
InitialKeyPoints(mm) == << >>

\* make_parallel_paths entered with a descriptor or None; the first
\* make_flight call reaches make_flight_path_along_x, lines 99-100:
\* m = [] and t, x = -dt, -dx.
DsmCall(arg) ==
    \E enc \in { DsmEncounter(arg) } :
    /\ pc = "idle"
    /\ call' = [fn |-> "dsm", arg |-> arg, enc |-> enc]
    /\ fno' = 1
    /\ m' = InitialKeyPoints(m)
    /\ path_dt' = StepDt(enc)
    /\ path_dx' = StepDx(enc, 1)
    /\ t' = RNeg(StepDt(enc))
    /\ x' = RNeg(StepDx(enc, 1))
    /\ pc' = "dsm_loop"
    /\ UNCHANGED << flights, err, own_draws, sys_draws, first, pathVars, viz >>

\* One pass of the while loop, lines 101-107.
DsmLoop ==
    /\ pc = "dsm_loop"
    /\ LoopContinues(t, call.enc.time_length)
    /\ LET enc == call.enc
           t2 == RAdd(t, path_dt)
           x2 == RAdd(x, path_dx)
           n == Len(m) + 1
       IN  \E prior \in { SourceValues } :
           \E y \in Returned(enc, prior, "gauss", "y",
                              PathGaussOutcomes(enc, n, RZero, enc.sigma[2])) :
           \E z \in Returned(enc, prior \o << y >>, "gauss", "z",
                              PathGaussOutcomes(enc, n, RZero, enc.sigma[3])) :
           \E x_dev \in Returned(enc, prior \o << y, z >>, "gauss", "x_dev",
                                  PathGaussOutcomes(enc, n, RZero, enc.sigma[1])) :
                /\ t' = t2
                /\ x' = x2
                /\ m' = Append(m, << t2, RAdd(x2, x_dev), y, z >>)
                /\ Drawn(enc, WaypointDraws(y, z, x_dev))
    /\ UNCHANGED << pc, call, fno, path_dt, path_dx, flights, err, first, pathVars, viz >>

\* The loop has ended with fewer than two key points: m[-2], line 110, raises.
DsmIndexError ==
    /\ pc = "dsm_loop"
    /\ ~LoopContinues(t, call.enc.time_length)
    /\ Len(m) < 2
    /\ pc' = "raised"
    /\ err' = "IndexError"
    /\ UNCHANGED << call, fno, m, t, x, path_dt, path_dx, flights, own_draws, sys_draws, first, pathVars, viz >>

\* The loop has ended: lines 110-113 and make_flight's lines 120-127 build the
\* Flight; then the second make_flight call starts, or the list is returned.
DsmFlightDone ==
    /\ pc = "dsm_loop"
    /\ ~LoopContinues(t, call.enc.time_length)
    /\ Len(m) >= 2
    /\ flights' = Append(flights, MakeFlight(call.enc, fno, m))
    /\ IF fno = 1
       THEN /\ fno' = 2
            /\ m' = InitialKeyPoints(m)
            /\ path_dt' = path_dt
            /\ path_dx' = StepDx(call.enc, 2)
            /\ t' = RNeg(path_dt)
            /\ x' = RNeg(StepDx(call.enc, 2))
            /\ pc' = pc
       ELSE /\ pc' = "done"
            /\ UNCHANGED << fno, m, t, x, path_dt, path_dx >>
    /\ UNCHANGED << call, err, own_draws, sys_draws, first, pathVars, viz >>

NextDsm ==
    \/ \E arg \in (IF Fresh THEN DsmArgs ELSE Repeated("dsm")) : DsmCall(arg)
    \/ DsmLoop
    \/ DsmIndexError
    \/ DsmFlightDone

----------------------------------------------------------------------------
(* reich_model.py                                                           *)

MaxDeltaV == 3          \* the small descriptors have delta_v in 0..MaxDeltaV
Far == 1000000000       \* the 1e9 of deviation_path's outermost knots

\* The arguments of make_parallel_paths the model enumerates: None, the
\* standard descriptor with its own random source, the small descriptors
\* without a source, with a random.Random and with a scripted source, and
\* small descriptors with lambda_y = 0, YS_y = 0 or YS_y = 84.02470105446221,
\* whose square lies close to the midpoint of two floats: math.pow(YS_y, 2)
\* is 7060.150387291744 where libm does not round correctly, and
\* YS_y * YS_y = 7060.150387291743 (this one with h = 0, no vertical spread).
ReichArgs ==
    { NoEncounter } \cup { Encounter(StandardReich("own")) }
        \cup { Encounter(SmallReich(sy, k, r)) :
                    sy \in { 2, 3 }, k \in 0..MaxDeltaV, r \in { "none", "own" } }
        \cup { Encounter(SmallReich(2, 1, "scripted")) }
        \cup { Encounter([SmallReich(2, 1, r) EXCEPT !.lambda_y = RZero]) :
                    r \in { "none", "own" } }
        \cup { Encounter([SmallReich(2, 1, "own") EXCEPT !.YS_y = RZero]) }
        \cup { Encounter([SmallReich(2, 1, "own") EXCEPT
                              !.YS_y = << 1, -46, 44053142, 62604770 >>,
                              !.h = RZero]) }

\* ReichEarlyError with the delta_v == 0 check of lines 96-97 left out: the
\* division of line 100 raises instead.
EarlyErrorUnchecked(enc) ==
    IF IsZero(enc.delta_v) \/ IsZero(enc.YS_y) \/ IsZero(enc.delta_z)
    THEN "ZeroDivisionError"
    ELSE "none"

\* lines 96-104: the exception raised before any draw, or "none": the check
\* of delta_v, then the divisions by delta_v, YS_y and delta_z.
ReichEarlyError(enc) ==
    IF IsZero(enc.delta_v) THEN "NotImplementedError"
    ELSE IF IsZero(enc.YS_y) \/ IsZero(enc.delta_z)
         THEN "ZeroDivisionError"
    ELSE "none"

\* lines 100-107
DtOverlapX(enc) == RDiv(RMul(R(2), enc.lambda_x), enc.delta_v)
DtOverlapY(enc) == RDiv(RMul(R(2), enc.lambda_y), enc.YS_y)
DtOverlapZ(enc) == RDiv(RMul(R(2), enc.lambda_z), enc.delta_z)
DtView(enc) ==
    RMax(RMul(RMax(RMax(DtOverlapX(enc), DtOverlapY(enc)), DtOverlapZ(enc)),
              << 1, -52, 40265318, 53687091 >>),       \* 1.2
         R(3))

\* lines 116-119: the k-th aircraft's x at the start and end of the window
\* of length dt_view.
ReichSpeed(enc, k) == IF k = 1 THEN enc.v ELSE RSub(enc.v, enc.delta_v)
XA(enc, k, dt_view) ==
    RMul(ReichSpeed(enc, k), RSub(RZero, RDiv(dt_view, R(2))))
XB(enc, k, dt_view) ==
    RMul(ReichSpeed(enc, k), RSub(dt_view, RDiv(dt_view, R(2))))

\* FX measured from the start of the window: speed * t, not centred on the
\* window's midpoint.
FXFromStart(enc, k, dt_view, tt) ==
    Interp(tt, << RZero, dt_view >>,
           << RZero, RMul(ReichSpeed(enc, k), dt_view) >>)

\* lines 120-121: fx1, fx2
FX(enc, k, dt_view, tt) ==
    Interp(tt, << RZero, dt_view >>,
           << XA(enc, k, dt_view), XB(enc, k, dt_view) >>)

\* lines 127, 157
SigmaY(enc) == compute_sigma(enc.w, PowOneAxis)
SigmaZ(enc) == compute_sigma(enc.h, PowOneAxis)

\* line 135-136, given the value u the r.uniform(-0.5, 0.5) call returned
TOverlapY(enc, u) ==
    RMul(u, RDiv(RMul(DtOverlapY(enc), enc.S_y), enc.lambda_y))

\* lines 141-142: the values math.pow(a, 2) can return.  libm's pow is
\* accurate to a little over half a unit in the last place and not always
\* correctly rounded: the float nearest to a * a, and, when a * a lies
\* within 1/32 of a unit in the last place of the midpoint between that
\* float and the next one on its side, that next one too.  The rounding
\* error a * a - p of the product p is a float: a is split in two halves h
\* and l of 26 bits, whose products are exact (Dekker).
MathPowSquare(a) ==
    LET p == RMul(a, a)
        c == RMul(R(LimbBase + 1), a)
        h == RSub(c, RSub(c, a))
        l == RSub(a, h)
        error == RAdd(RAdd(RSub(RMul(h, h), p), RMul(RMul(R(2), h), l)),
                      RMul(l, l))
        below == RLt(error, RZero) /\ p[3] = HiLow /\ p[4] = 0
        e == IF below THEN p[2] - 1 ELSE p[2]
        unit == << 1, e - 52, HiLow, 0 >>
        margin == << 1, e - 54, 15 * 4194304, 0 >>
    IN  IF IsZero(a) THEN { RZero }
        ELSE IF RLt(margin, RAbs(error))
        THEN { p, RAdd(p, IF RLt(RZero, error) THEN unit ELSE RNeg(unit)) }
        ELSE { p }

\* lines 141-142: what math.pow(encounter.YS_y, 2) returns in this call.
\* libm is a function: what it returned for YS_y to the invocation before
\* it returns again.
YSquared(enc) ==
    IF first.done /\ first.call.fn = "reich" /\ "ysq" \in DOMAIN first.call
    THEN { first.call.ysq }
    ELSE MathPowSquare(enc.YS_y)

\* lines 141-142, given the value u the r.uniform(0, 1) call returned and
\* the value ysq math.pow(encounter.YS_y, 2) returned
LateralSpeed(ysq, k, u) ==
    LET root == RSqrt(RMul(RMod(u, RHalf), ysq))
    IN  IF k = 1 THEN root ELSE RNeg(root)

\* lines 144-145: the nominal lateral position of the k-th aircraft
Nominal(enc, k) ==
    IF k = 1 THEN RDiv(RNeg(enc.S_y), R(2)) ELSE RDiv(enc.S_y, R(2))

\* deviation_path, lines 77-84: the array m of knots << time, position >>.
\* With deviation_speed = 0 and overlap_position a numpy float (what
\* random.Random.gauss returns for the numpy sigma of compute_sigma) the
\* division of line 77 does not raise: dt_transition is inf (nan for 0 / 0),
\* the knots are -1e9, -inf, t_overlap, +inf, 1e9, and np.interp returns
\* overlap_position at every time in the window: the slope to either side
\* of t_overlap is 0, and where slope * (tt + inf) is nan np.interp falls
\* back on the knot at t_overlap.  The model keeps that one knot.
DeviationKnots(nominal_position, deviation_speed, t_overlap, overlap_position) ==
    IF IsZero(deviation_speed) THEN << << t_overlap, overlap_position >> >>
    ELSE
    LET dt_transition ==
            RAbs(RDiv(RSub(overlap_position, nominal_position), deviation_speed))
    IN  << << R(-Far), nominal_position >>,
           << RSub(t_overlap, dt_transition), nominal_position >>,
           << t_overlap, overlap_position >>,
           << RAdd(t_overlap, dt_transition), nominal_position >>,
           << R(Far), nominal_position >> >>

\* deviation_path, line 85: the function it returns, applied to tt.
DeviationPath(knots, tt) == Interp(tt, Column(knots, 1), Column(knots, 2))

\* list.sort() on a list of times
RECURSIVE Insert(_, _)
Insert(v, sorted) ==
    IF sorted = << >> THEN << v >>
    ELSE IF RLt(v, Head(sorted)) THEN << v >> \o sorted
    ELSE << Head(sorted) >> \o Insert(v, Tail(sorted))
RECURSIVE Sort(_)
Sort(seq) == IF seq = << >> THEN << >> ELSE Insert(Head(seq), Sort(Tail(seq)))

\* TKey with the 0 < t < dt_view filter of lines 149-150 left out.
TKeyUnfiltered(enc, k, dt_view, y_overlap, t_overlap_y, v_y) ==
    IF IsZero(v_y) THEN Sort(<< RZero, dt_view, t_overlap_y >>)
    ELSE
    LET dt_y == RAbs(RDiv(RSub(y_overlap, Nominal(enc, k)), v_y))
    IN  Sort(<< RZero, dt_view, t_overlap_y, RSub(t_overlap_y, dt_y),
                RAdd(t_overlap_y, dt_y) >>)

\* TKey without the overlap instant among the candidate key times.
TKeyNoOverlapInstant(enc, k, dt_view, y_overlap, t_overlap_y, v_y) ==
    LET dt_y == RAbs(RDiv(RSub(y_overlap, Nominal(enc, k)), v_y))
        cand == IF IsZero(v_y) THEN << >>
                ELSE << RSub(t_overlap_y, dt_y), RAdd(t_overlap_y, dt_y) >>
        inside(tt) == RLt(RZero, tt) /\ RLt(tt, dt_view)
    IN  Sort(<< RZero, dt_view >> \o SelectSeq(cand, inside))

\* lines 123-124, 147-150 and 164/175: the k-th aircraft's sorted key times.
\* With v_y = 0 and y_overlap a numpy float, dt_y of lines 147-148 is inf (or
\* nan) and t_overlap_y -/+ dt_y fail the test 0 < t < dt_view.
TKey(enc, k, dt_view, y_overlap, t_overlap_y, v_y) ==
    LET dt_y == RAbs(RDiv(RSub(y_overlap, Nominal(enc, k)), v_y))
        cand == IF IsZero(v_y) THEN << t_overlap_y >>
                ELSE << t_overlap_y, RSub(t_overlap_y, dt_y), RAdd(t_overlap_y, dt_y) >>
        inside(tt) == RLt(RZero, tt) /\ RLt(tt, dt_view)
    IN  Sort(<< RZero, dt_view >> \o SelectSeq(cand, inside))

\* OpIntentUBound with the lateral corner at nominal - w, as in the lower bound.
UBoundMinusW(enc, k) ==
    Point3(RAdd(XB(enc, k, DtView(enc)), enc.lambda_x),
           RSub(Nominal(enc, k), enc.w), enc.h)

\* lines 170-171 and 181-182: the corners of the k-th op_intent
OpIntentLBound(enc, k) ==
    Point3(RSub(XA(enc, k, DtView(enc)), enc.lambda_x),
           RSub(Nominal(enc, k), enc.w), RNeg(enc.h))
OpIntentUBound(enc, k) ==
    Point3(RAdd(XB(enc, k, DtView(enc)), enc.lambda_x),
           RAdd(Nominal(enc, k), enc.w), enc.h)

\* lines 164 and 175: the rows [t, fx(t), fy(t)] of the k-th aircraft's key
\* points, before the vertical position joins them.
ReichRows(enc, k, y_overlap, t_overlap_y, v_y) ==
    LET dt_view == DtView(enc)
        t_key == TKey(enc, k, dt_view, y_overlap, t_overlap_y, v_y)
        fy == DeviationKnots(Nominal(enc, k), v_y, t_overlap_y, y_overlap)
    IN  [i \in 1..Len(t_key) |->
            << t_key[i], FX(enc, k, dt_view, t_key[i]),
               DeviationPath(fy, t_key[i]) >>]

\* lines 163-172 and 174-183: the k-th Flight over the rows, at height z
FlightOver(enc, k, rows, z) ==
    Flight([i \in 1..Len(rows) |-> << rows[i][1], rows[i][2], rows[i][3], z >>],
           OpIntentLBound(enc, k), OpIntentUBound(enc, k),
           Point3(enc.lambda_x, enc.lambda_y, enc.lambda_z))

ReichFlight(enc, k, y_overlap, t_overlap_y, v_y, z) ==
    FlightOver(enc, k, ReichRows(enc, k, y_overlap, t_overlap_y, v_y), z)

\* line 130: y_overlap = r.gauss(0, sigma_y / math.sqrt(2)).  The scale of a
\* gauss draw decides only whether the value can differ from the mean, and
\* sigma_y / sqrt(2) is 0 exactly when sigma_y is.
YOverlapOutcomes(enc) == GaussOutcomes(RZero, SigmaY(enc))

\* The draws of lines 130-142, in call order.
LateralDraws(y_overlap, u_t, u_1, u_2) ==
    << Draw("gauss", "y_overlap", y_overlap), Draw("uniform", "t_overlap_y", u_t),
       Draw("uniform", "v1_y", u_1), Draw("uniform", "v2_y", u_2) >>

\* make_parallel_paths raises before drawing: lines 96-97 (delta_v == 0), or
\* a division by a zero descriptor field.
ReichRaiseEarly(arg) ==
    \E enc \in { ReichEncounter(arg) } :
    /\ pc = "idle"
    /\ ReichEarlyError(enc) # "none"
    /\ call' = [fn |-> "reich", arg |-> arg, enc |-> enc]
    /\ pc' = "raised"
    /\ err' = ReichEarlyError(enc)
    /\ UNCHANGED << fno, m, t, x, path_dt, path_dx, flights, own_draws, sys_draws, first, pathVars, viz >>

\* make_parallel_paths raises at line 135, dt_overlap_y * S_y / lambda_y with
\* lambda_y = 0, after the gauss call of line 130 has drawn y_overlap.
ReichRaiseInterval(arg) ==
    \E enc \in { ReichEncounter(arg) } :
    /\ pc = "idle"
    /\ ReichEarlyError(enc) = "none"
    /\ IsZero(enc.lambda_y)
    /\ \E y_overlap \in Returned(enc, << >>, "gauss", "y_overlap",
                                  YOverlapOutcomes(enc)) :
            Drawn(enc, << Draw("gauss", "y_overlap", y_overlap) >>)
    /\ call' = [fn |-> "reich", arg |-> arg, enc |-> enc]
    /\ pc' = "raised"
    /\ err' = "ZeroDivisionError"
    /\ UNCHANGED << fno, m, t, x, path_dt, path_dx, flights, first, pathVars, viz >>

\* make_parallel_paths raises in deviation_path, line 77 (called from lines
\* 144-145): with a lateral speed of 0 the division raises ZeroDivisionError
\* when y_overlap is a Python float, which a scripted source returns from
\* gauss; a random.Random, and so the default source, returns a numpy float.
ReichRaiseLateral(arg) ==
    \E enc \in { ReichEncounter(arg) } :
    /\ pc = "idle"
    /\ ReichEarlyError(enc) = "none"
    /\ ~IsZero(enc.lambda_y)
    /\ enc.r = "scripted"
    /\ \E y_overlap \in Returned(enc, << >>, "gauss", "y_overlap",
                                  YOverlapOutcomes(enc)) :
       \E u_t \in Returned(enc, << y_overlap >>, "uniform", "t_overlap_y",
                           UniformOutcomes(RNeg(RHalf), RHalf)) :
       \E u_1 \in Returned(enc, << y_overlap, u_t >>, "uniform", "v1_y",
                           UniformOutcomes(RZero, ROne)) :
       \E u_2 \in Returned(enc, << y_overlap, u_t, u_1 >>, "uniform", "v2_y",
                           UniformOutcomes(RZero, ROne)) :
       \E ysq \in YSquared(enc) :
            /\ IsZero(LateralSpeed(ysq, 1, u_1)) \/ IsZero(LateralSpeed(ysq, 2, u_2))
            /\ Drawn(enc, LateralDraws(y_overlap, u_t, u_1, u_2))
            /\ call' = [fn |-> "reich", arg |-> arg, enc |-> enc, ysq |-> ysq]
    /\ pc' = "raised"
    /\ err' = "ZeroDivisionError"
    /\ UNCHANGED << fno, m, t, x, path_dt, path_dx, flights, first, pathVars, viz >>

\* make_parallel_paths runs to its return, line 185; with a lateral speed
\* of 0 it does when y_overlap is a numpy float, which random.Random.gauss
\* returns (the divisions give inf with a RuntimeWarning).
ReichReturn(arg) ==
    \E enc \in { ReichEncounter(arg) } :
    /\ pc = "idle"
    /\ ReichEarlyError(enc) = "none"
    /\ ~IsZero(enc.lambda_y)
    /\ \E y_overlap \in Returned(enc, << >>, "gauss", "y_overlap",
                                  YOverlapOutcomes(enc)) :
       \E u_t \in Returned(enc, << y_overlap >>, "uniform", "t_overlap_y",
                           UniformOutcomes(RNeg(RHalf), RHalf)) :
       \E u_1 \in Returned(enc, << y_overlap, u_t >>, "uniform", "v1_y",
                           UniformOutcomes(RZero, ROne)) :
       \E u_2 \in Returned(enc, << y_overlap, u_t, u_1 >>, "uniform", "v2_y",
                           UniformOutcomes(RZero, ROne)) :
       \E ysq \in YSquared(enc) :
       \E t_overlap_y \in { TOverlapY(enc, u_t) } :
       \E rows1 \in { ReichRows(enc, 1, y_overlap, t_overlap_y,
                                 LateralSpeed(ysq, 1, u_1)) },
          rows2 \in { ReichRows(enc, 2, y_overlap, t_overlap_y,
                                 LateralSpeed(ysq, 2, u_2)) } :
       \E z1 \in Returned(enc, << y_overlap, u_t, u_1, u_2 >>, "gauss", "z1",
                          GaussOutcomes(RZero, SigmaZ(enc))) :
       \E z2 \in Returned(enc, << y_overlap, u_t, u_1, u_2, z1 >>, "gauss", "z2",
                          GaussOutcomes(RZero, SigmaZ(enc))) :
            /\ enc.r = "scripted" =>
                  ~(IsZero(LateralSpeed(ysq, 1, u_1))
                      \/ IsZero(LateralSpeed(ysq, 2, u_2)))
            /\ flights' = << FlightOver(enc, 1, rows1, z1),
                             FlightOver(enc, 2, rows2, z2) >>
            /\ Drawn(enc, LateralDraws(y_overlap, u_t, u_1, u_2)
                            \o << Draw("gauss", "z1", z1),
                                  Draw("gauss", "z2", z2) >>)
            /\ call' = [fn |-> "reich", arg |-> arg, enc |-> enc, ysq |-> ysq]
    /\ pc' = "done"
    /\ UNCHANGED << fno, m, t, x, path_dt, path_dx, err, first, pathVars, viz >>

\* reich_model.make_parallel_paths(arg)
ReichCall(arg) ==
    \/ ReichRaiseEarly(arg)
    \/ ReichRaiseInterval(arg)
    \/ ReichRaiseLateral(arg)
    \/ ReichReturn(arg)

NextReich ==
    \E arg \in (IF Fresh THEN ReichArgs ELSE Repeated("reich")) : ReichCall(arg)

----------------------------------------------------------------------------
(* Two invocations.                                                         *)

\* The discrete-sampling arguments of the invocations after which another
\* is made: None (the call viz.py makes), and the enumerated descriptors of
\* one pair of ground speeds and the sampling steps 1/2 and 3/4.
TwiceDsmArgs ==
    { NoEncounter }
        \cup { Encounter(e) : e \in { d \in DsmEncounters :
                                          /\ d.v1_ground = R(1)
                                          /\ d.v2_ground = Q(1, 2)
                                          /\ d.sampling_frequency \in { R(2), Q(4, 3) } } }

\* The Reich arguments of the invocations after which another is made: the
\* small descriptors of one separation and speed difference, and those of
\* ReichArgs with which the call raises.
TwiceReichArgs ==
    { a \in ReichArgs :
          \/ ReichEarlyError(ReichEncounter(a)) # "none"
          \/ IsZero(ReichEncounter(a).lambda_y)
          \/ a \in { Encounter(SmallReich(2, 1, r)) : r \in { "none", "own", "scripted" } } }

\* viz.py, _update_encounter_task: the encounter made of the Flights a
\* make_flights call returned has been shown to its end and is dropped, and
\* make_flights is called again, here with the same argument; likewise a
\* caller that has caught the exception of a call that raised.  Nothing is
\* done to a random source in between: the next call draws from where the
\* ended one left it.  The locals of the ended call are garbage; the next
\* call assigns its own.
Again ==
    /\ pc \in { "done", "raised" }
    /\ ~first.done
    /\ first' = [done |-> TRUE, call |-> call, pc |-> pc, err |-> err,
                 flights |-> flights, own_draws |-> own_draws,
                 sys_draws |-> sys_draws]
    /\ pc' = "idle"
    /\ call' = NoCall
    /\ flights' = << >>
    /\ err' = "none"
    /\ UNCHANGED << fno, m, t, x, path_dt, path_dx, own_draws, sys_draws,
                    pathVars, viz >>

----------------------------------------------------------------------------
(* flights.py: FlightPath objects over numpy arrays.                        *)

MaxPaths == 3           \* FlightPath objects per behaviour, at most
MaxQueryTime == 2       \* location_at is called at -1, 0, 1/2, 1, ..., MaxQueryTime

\* The arrays FlightPath is constructed with: a three-waypoint and a
\* two-waypoint path ascending strictly from t = 0, and a path that repeats
\* a time.
InitialTxyz ==
    { << << R(0), R(0), R(0), R(0) >>, << R(1), R(2), R(1), R(-1) >>,
         << R(3), R(4), R(0), R(1) >> >>,
      << << R(0), R(-1), R(1), Q(1, 2) >>, << R(2), R(1), R(-1), Q(1, 2) >> >>,
      << << R(0), R(0), R(-1), R(0) >>, << R(1), R(1), R(-1), R(0) >>,
         << R(1), R(1), R(1), R(0) >>, << R(2), R(2), R(1), R(0) >> >> }

\* The (dt, dx, dy, dz) of the offset calls; an argument left out is 0.
OffsetArgs ==
    { << R(0), Q(-1, 2), R(1), << 1, -56, 53687091, 26843546 >> >>,     \* dz = 0.1
      << Q(1, 2), R(1), R(-1), R(0) >> }

\* The (ft, fx, fy, fz) of the scale calls; an argument left out is 1.
ScaleArgs ==
    { << R(1), R(-1), R(1), R(1) >>,
      << R(2), R(1), R(1), R(1) >>,
      << << 1, -54, 40265318, 53687091 >>, R(2), Q(-1, 2), R(0) >> }    \* ft = 0.3

QueryTimes == { R(k) : k \in -1..MaxQueryTime } \cup { RHalf }

\* The waypoints of FlightPath object p.
Txyz(p) == arrays[paths[p]._txyz]

\* Copy with the copy left out: the array itself.
NoCopy(a) == a

\* self._txyz.copy(), lines 32 and 48: the identity of the array it returns,
\* a newly allocated one.
Copy(a) == Len(arrays) + 1

\* The heap after array a has been given the contents w.
Store(a, w) ==
    IF a = Len(arrays) + 1 THEN Append(arrays, w) ELSE [arrays EXCEPT ![a] = w]

\* FlightPath(txyz), lines 14-21, on a newly built array.
NewPath(txyz) ==
    /\ pc = "idle"
    /\ paths = << >>
    /\ arrays' = Append(arrays, txyz)
    /\ paths' = Append(paths, [_txyz |-> Len(arrays) + 1])
    /\ derived' = Append(derived, [op |-> "init", made |-> txyz])
    /\ loc' = [op |-> "none"]
    /\ UNCHANGED << modelVars, viz >>

\* p.offset(dt, dx, dy, dz), lines 32-37.
Offset(p, a) ==
    /\ Len(paths) < MaxPaths
    /\ LET mm == Copy(paths[p]._txyz)
           w == OffsetTxyz(Txyz(p), a[1], a[2], a[3], a[4])
       IN  /\ arrays' = Store(mm, w)
           /\ paths' = Append(paths, [_txyz |-> mm])
           /\ derived' = Append(derived,
                  [op |-> "offset", of |-> p, args |-> a, made |-> w])
    /\ loc' = [op |-> "none"]
    /\ UNCHANGED << modelVars, viz >>

\* p.scale(ft, fx, fy, fz), lines 48-53.
Scale(p, a) ==
    /\ Len(paths) < MaxPaths
    /\ LET mm == Copy(paths[p]._txyz)
           w == ScaleTxyz(Txyz(p), a[1], a[2], a[3], a[4])
       IN  /\ arrays' = Store(mm, w)
           /\ paths' = Append(paths, [_txyz |-> mm])
           /\ derived' = Append(derived,
                  [op |-> "scale", of |-> p, args |-> a, made |-> w])
    /\ loc' = [op |-> "none"]
    /\ UNCHANGED << modelVars, viz >>

\* p.location_at(tt), lines 56-60.
LocationAtCall(p, tt) ==
    /\ loc' = [op |-> "location_at", path |-> p, t |-> tt,
               result |-> LocationAt(Txyz(p), tt)]
    /\ UNCHANGED << modelVars, arrays, paths, derived, viz >>

\* p.t_max(), line 63.
TMaxCall(p) ==
    /\ loc' = [op |-> "t_max", path |-> p, result |-> TMax(Txyz(p))]
    /\ UNCHANGED << modelVars, arrays, paths, derived, viz >>

NextPath ==
    \/ \E txyz \in InitialTxyz : NewPath(txyz)
    \/ \E p \in 1..Len(paths) :
          \/ \E a \in OffsetArgs : Offset(p, a)
          \/ \E a \in ScaleArgs : Scale(p, a)
          \/ \E tt \in QueryTimes \cup { TMax(Txyz(p)) } : LocationAtCall(p, tt)
          \/ TMaxCall(p)

----------------------------------------------------------------------------
(* vizmath.py: calls of compute_sigma and compute_volume_size.              *)

MaxVizCalls == 2        \* vizmath calls per behaviour, at most

\* The containment fractions the calls are made with: 0.95 ^ (1/2), 0.99,
\* 0.95, 0.9, 0.8 and 0.5.
\* 0.95 ^ (1/2), 0.99, 0.95, 0.9, 0.8, 0.5
Containments ==
    { PowOneAxis,
      << 1, -53, 66437775, 48318382 >>,
      << 1, -53, 63753420, 107374182 >>,
      << 1, -53, 60397977, 80530637 >>,
      << 1, -53, 53687091, 26843546 >>,
      RHalf }

\* The volume sizes and sigmas the calls are made with, next to the result
\* of the call before: 1, 1/2, 10, and the standard descriptor's 2 * w.
VizArgs == { ROne, RHalf, R(10), RMul(R(14), M_PER_FT) }

VizCall(fn, arg, p, result) == [fn |-> fn, arg |-> arg, p |-> p, result |-> result]

\* The arguments the model enumerates for a call of fn with containment p:
\* the fixed ones, and what the call before returned when that was the other
\* function with the same p.
VizArgsNow(fn, p) ==
    VizArgs \cup { viz[i].result :
                      i \in { j \in { Len(viz) } \cap DOMAIN viz :
                                  viz[j].p = p /\ viz[j].fn # fn } }

\* compute_sigma(volume_size, p_containment), line 16.
ComputeSigmaCall(volume_size, p) ==
    /\ Len(viz) < MaxVizCalls
    /\ viz' = Append(viz, VizCall("compute_sigma", volume_size, p,
                                  compute_sigma(volume_size, p)))
    /\ UNCHANGED << modelVars, pathVars >>

\* compute_volume_size(sigma, p_containment), line 20.
ComputeVolumeSizeCall(sigma, p) ==
    /\ Len(viz) < MaxVizCalls
    /\ viz' = Append(viz, VizCall("compute_volume_size", sigma, p,
                                  compute_volume_size(sigma, p)))
    /\ UNCHANGED << modelVars, pathVars >>

NextViz ==
    \E p \in Containments :
        \/ \E a \in VizArgsNow("compute_sigma", p) : ComputeSigmaCall(a, p)
        \/ \E a \in VizArgsNow("compute_volume_size", p) : ComputeVolumeSizeCall(a, p)

Init ==
    /\ pc = "idle"
    /\ call = NoCall
    /\ fno = 0
    /\ m = << >>
    /\ t = RZero
    /\ x = RZero
    /\ path_dt = RZero
    /\ path_dx = RZero
    /\ flights = << >>
    /\ err = "none"
    /\ own_draws = << >>
    /\ sys_draws = << >>
    /\ first = [done |-> FALSE]
    /\ arrays = << >>
    /\ paths = << >>
    /\ derived = << >>
    /\ loc = [op |-> "none"]
    /\ viz = << >>

Next == NextDsm \/ NextReich
NextTwice ==
    \/ \E arg \in (IF Fresh THEN TwiceDsmArgs ELSE Repeated("dsm")) : DsmCall(arg)
    \/ DsmLoop
    \/ DsmIndexError
    \/ DsmFlightDone
    \/ \E arg \in (IF Fresh THEN TwiceReichArgs ELSE Repeated("reich")) : ReichCall(arg)
    \/ Again
Spec == Init /\ [][Next]_vars
SpecTwice == Init /\ [][NextTwice]_vars
SpecDsm == Init /\ [][NextDsm]_vars
SpecReich == Init /\ [][NextReich]_vars
SpecPath == Init /\ [][NextPath]_vars
SpecViz == Init /\ [][NextViz]_vars

----------------------------------------------------------------------------
(* Properties.                                                              *)

\* math.ceil(a) for 0 <= a < 2^31
Ceil(a) ==
    IF a[1] = 0 THEN 0
    ELSE LET v == ShiftRight(a[3], a[4], -a[2])
         IN  v[1] * LimbBase + v[2] + (IF v[3] THEN 1 ELSE 0)

\* 2^-40 * |v|: an allowance for the roundings of a few float operations on
\* values of magnitude |v|.
Rounding(v) == IF IsZero(v) THEN RZero ELSE << 1, v[2] - 40, v[3], v[4] >>

\* a and b differ by no more than the rounding allowance at magnitude mag.
Near(a, b, mag) == RLe(RAbs(RSub(a, b)), Rounding(mag))

\* The same for values read from a Point3, whose components Panda3D's
\* default build holds in single precision: 2^-20 * |mag|.
NearSingle(a, b, mag) ==
    RLe(RAbs(RSub(a, b)),
        IF IsZero(mag) THEN RZero ELSE << 1, mag[2] - 20, mag[3], mag[4] >>)

DsmCalled == call.fn = "dsm"
ReichCalled == call.fn = "reich"
IsStandard(enc) == [enc EXCEPT !.r = "own"] = StandardReich("own")
Lower(f) == f.op_intent[1]
Upper(f) == f.op_intent[2]

\* C1: the last waypoint of every path make_flight_path_along_x returns is at
\* time exactly time_length, whether or not dt divides time_length.
C1_LastWaypointAtTimeLength ==
    DsmCalled =>
        \A k \in 1..Len(flights) :
            TMax(flights[k].path) = call.enc.time_length

\* A call has returned whose last generated key point overshot time_length
\* (dt does not divide it) and was truncated onto it.
C1_Witness ==
    /\ pc = "done"
    /\ DsmCalled
    /\ RLt(call.enc.time_length, m[Len(m)][1])
    /\ TMax(flights[2].path) = call.enc.time_length
    /\ flights[2].path[Len(m)][3] # m[Len(m)][3]

\* C2: in every returned path waypoint k (counted from 0) other than the last
\* is at time k * dt, no time exceeds time_length, there are
\* ceil(time_length / dt) + 1 waypoints, and time_length = 5 with dt = 1/2
\* gives exactly the times 0, 1/2, ..., 5.
C2_WaypointTimes ==
    DsmCalled =>
        \A k \in 1..Len(flights) :
            LET p == flights[k].path
                dt == RDiv(ROne, call.enc.sampling_frequency)
                time_length == call.enc.time_length
            IN  /\ Len(p) = Ceil(RDiv(time_length, dt)) + 1
                /\ \A i \in 1..(Len(p) - 1) : p[i][1] = RMul(R(i - 1), dt)
                /\ \A i \in 1..Len(p) : RLe(p[i][1], time_length)
                /\ (time_length = R(5) /\ dt = RHalf) =>
                       Column(p, 1) = [i \in 1..11 |-> Q(i - 1, 2)]

\* The scenario time_length = 5, sampling_frequency = 2 has returned.
C2_Witness ==
    /\ pc = "done"
    /\ DsmCalled
    /\ call.enc.time_length = R(5)
    /\ call.enc.sampling_frequency = R(2)
    /\ Len(flights[1].path) = 11
    /\ Len(flights[2].path) = 11

\* C3: reich_model.make_parallel_paths with delta_v = 0 raises
\* NotImplementedError and returns no Flights, whatever the other parameters.
C3_ZeroDeltaVNotImplemented ==
    (ReichCalled /\ IsZero(call.enc.delta_v)) =>
        (pc = "raised" /\ err = "NotImplementedError" /\ flights = << >>)

\* A call with delta_v = 0 has ended.
C3_Witness ==
    /\ ReichCalled
    /\ IsZero(call.enc.delta_v)
    /\ pc = "raised"
    /\ own_draws = << >>
    /\ sys_draws = << >>

\* The documented viewing window: max(1.2 * max(overlap durations), 3).
DocumentedDtView(enc) ==
    LET ox == RDiv(RMul(R(2), enc.lambda_x), enc.delta_v)
        oy == RDiv(RMul(R(2), enc.lambda_y), enc.YS_y)
        oz == RDiv(RMul(R(2), enc.lambda_z), enc.delta_z)
        longest == IF RLe(ox, oy) /\ RLe(oz, oy) THEN oy
                   ELSE IF RLe(oz, ox) THEN ox ELSE oz
        scaled == RMul(<< 1, -52, 40265318, 53687091 >>, longest)    \* 1.2 * longest
    IN  IF RLt(scaled, R(3)) THEN R(3) ELSE scaled

\* C4: with the standard Reich descriptor, the list make_parallel_paths returns
\* has exactly two Flights, each path with 2 to 5 waypoints, first time >= 0
\* and last time <= dt_view.
C4_StandardTwoFlightsInWindow ==
    (pc = "done" /\ ReichCalled /\ IsStandard(call.enc)) =>
        /\ Len(flights) = 2
        /\ \A k \in 1..Len(flights) :
              LET p == flights[k].path
              IN  /\ Len(p) \in 2..5
                  /\ RLe(RZero, p[1][1])
                  /\ RLe(p[Len(p)][1], DocumentedDtView(call.enc))

\* The standard descriptor has returned one path with all three lateral key
\* times inside the window and one with none.
C4_Witness ==
    /\ pc = "done"
    /\ ReichCalled
    /\ IsStandard(call.enc)
    /\ Len(flights[1].path) = 5
    /\ Len(flights[2].path) < 5
    /\ DocumentedDtView(call.enc) = R(3)

\* C5: with the standard Reich descriptor both returned Flights have an
\* op_intent whose lower corner is strictly below its upper corner on x, y, z.
C5_StandardEnvelopeStrict ==
    (pc = "done" /\ ReichCalled /\ IsStandard(call.enc)) =>
        \A k \in 1..Len(flights) : \A c \in 1..3 :
            RLt(Lower(flights[k])[c], Upper(flights[k])[c])

\* The standard descriptor has returned; flight 2's envelope starts between
\* x = -8 and -7 (-7.4676 but for rounding) and spans y from just above 0
\* (0.1524) to just above 4 (4.4196).
C5_Witness ==
    /\ pc = "done"
    /\ ReichCalled
    /\ IsStandard(call.enc)
    /\ RLt(R(-8), Lower(flights[2])[1]) /\ RLt(Lower(flights[2])[1], R(-7))
    /\ RLt(RZero, Lower(flights[2])[2]) /\ RLt(Lower(flights[2])[2], ROne)
    /\ RLt(R(4), Upper(flights[2])[2]) /\ RLt(Upper(flights[2])[2], R(5))

\* C6: every Flight either model's make_parallel_paths returns has
\* lower <= upper on every axis of its op_intent, also for descriptors with
\* negative ground speeds or with delta_v > v.
C6_EnvelopeOrdered ==
    pc = "done" =>
        \A k \in 1..Len(flights) : \A c \in 1..3 :
            RLe(Lower(flights[k])[c], Upper(flights[k])[c])

StrictlyAscending(times) ==
    \A i \in 1..(Len(times) - 1) : RLt(times[i], times[i + 1])

\* C7: every FlightPath of a returned Flight has at least 2 waypoints, first
\* waypoint time 0, and strictly ascending waypoint times.
C7_TimesStrictlyAscending ==
    pc = "done" =>
        \A k \in 1..Len(flights) :
            LET times == Column(flights[k].path, 1)
            IN  /\ Len(times) >= 2
                /\ times[1] = RZero
                /\ StrictlyAscending(times)

\* C8: offset and scale return a new FlightPath over an array of its own, and
\* every FlightPath keeps the waypoints it was made with, whatever is called
\* on it and on its results afterwards.
C8_TransformsLeaveOriginal ==
    /\ \A p \in 1..Len(paths) : Txyz(p) = derived[p].made
    /\ \A p, q \in 1..Len(paths) : p # q => paths[p]._txyz # paths[q]._txyz
    /\ Len(derived) = Len(paths)

\* A path has been offset and the result scaled, each changing the waypoints.
C8_Witness ==
    /\ Len(paths) = 3
    /\ derived[2].op = "offset" /\ derived[2].of = 1
    /\ derived[3].op = "scale" /\ derived[3].of = 2
    /\ Txyz(2) # Txyz(1)
    /\ Txyz(3) # Txyz(2)
    /\ Txyz(1) \in InitialTxyz

Sum4(a, b) == [c \in 1..4 |-> RAdd(a[c], b[c])]
Product4(a, b) == [c \in 1..4 |-> RMul(a[c], b[c])]

\* C9: p.offset(a).offset(b) has the waypoints of p.offset(a + b) and
\* p.scale(f).scale(g) those of p.scale(f * g), per axis; an axis whose
\* argument is the default (0 for offset, 1 for scale) is unchanged.
C9_TransformsCompose ==
    \A s \in 1..Len(paths) :
        /\ derived[s].op = "offset" =>
              LET q == derived[s].of
                  b == derived[s].args
              IN  /\ \A c \in 1..4 :
                        b[c] = RZero => Column(Txyz(s), c) = Column(Txyz(q), c)
                  /\ derived[q].op = "offset" =>
                        LET ab == Sum4(derived[q].args, b)
                        IN  Txyz(s) = OffsetTxyz(Txyz(derived[q].of),
                                                 ab[1], ab[2], ab[3], ab[4])
        /\ derived[s].op = "scale" =>
              LET q == derived[s].of
                  g == derived[s].args
              IN  /\ \A c \in 1..4 :
                        g[c] = ROne => Column(Txyz(s), c) = Column(Txyz(q), c)
                  /\ derived[q].op = "scale" =>
                        LET fg == Product4(derived[q].args, g)
                        IN  Txyz(s) = ScaleTxyz(Txyz(derived[q].of),
                                                fg[1], fg[2], fg[3], fg[4])

\* C9, within rounding: the waypoints of p.offset(a).offset(b) are those of
\* p.offset(a + b), and the waypoints of p.scale(f).scale(g) those of
\* p.scale(f * g), each coordinate to within the rounding of the float
\* operations that made it; an axis whose argument is the default is
\* unchanged exactly.
C9_TransformsComposeNear ==
    \A s \in 1..Len(paths) :
        /\ derived[s].op = "offset" =>
              LET q == derived[s].of
                  b == derived[s].args
              IN  /\ \A c \in 1..4 :
                        b[c] = RZero => Column(Txyz(s), c) = Column(Txyz(q), c)
                  /\ derived[q].op = "offset" =>
                        LET a == derived[q].args
                            ab == Sum4(a, b)
                            p == Txyz(derived[q].of)
                            once == OffsetTxyz(p, ab[1], ab[2], ab[3], ab[4])
                        IN  /\ Len(Txyz(s)) = Len(once)
                            /\ \A i \in 1..Len(once) : \A c \in 1..4 :
                                  Near(Txyz(s)[i][c], once[i][c],
                                       RAdd(RAbs(p[i][c]), RAdd(RAbs(a[c]), RAbs(b[c]))))
        /\ derived[s].op = "scale" =>
              LET q == derived[s].of
                  g == derived[s].args
              IN  /\ \A c \in 1..4 :
                        g[c] = ROne => Column(Txyz(s), c) = Column(Txyz(q), c)
                  /\ derived[q].op = "scale" =>
                        LET fg == Product4(derived[q].args, g)
                            once == ScaleTxyz(Txyz(derived[q].of),
                                              fg[1], fg[2], fg[3], fg[4])
                        IN  /\ Len(Txyz(s)) = Len(once)
                            /\ \A i \in 1..Len(once) : \A c \in 1..4 :
                                  Near(Txyz(s)[i][c], once[i][c], once[i][c])

\* A path has been scaled twice by the factor 0.3 on t, and the twice-scaled
\* time of a waypoint is not the time scaled by the rounded 0.3 * 0.3.
C9_Witness ==
    /\ Len(paths) = 3
    /\ derived[2].op = "scale" /\ derived[2].of = 1
    /\ derived[3].op = "scale" /\ derived[3].of = 2
    /\ Txyz(2) # Txyz(1)
    /\ Txyz(3) # Txyz(2)
    /\ LET fg == Product4(derived[2].args, derived[3].args)
       IN  Txyz(3) # ScaleTxyz(Txyz(1), fg[1], fg[2], fg[3], fg[4])

\* A path has been scaled twice by different factors, changing it each time.
C9_WitnessScale ==
    /\ Len(paths) = 3
    /\ derived[2].op = "scale" /\ derived[2].of = 1
    /\ derived[3].op = "scale" /\ derived[3].of = 2
    /\ derived[2].args # derived[3].args
    /\ Txyz(2) # Txyz(1)
    /\ Txyz(3) # Txyz(2)

\* A path has been offset twice, and the twice-offset waypoints are not those
\* of the path offset by the rounded sum.
C9_WitnessOffset ==
    /\ Len(paths) = 3
    /\ derived[2].op = "offset" /\ derived[2].of = 1
    /\ derived[3].op = "offset" /\ derived[3].of = 2
    /\ LET ab == Sum4(derived[2].args, derived[3].args)
       IN  Txyz(3) # OffsetTxyz(Txyz(1), ab[1], ab[2], ab[3], ab[4])

Position(row) == << row[2], row[3], row[4] >>

\* The linear interpolation at time tq of the positions p0 at t0 and p1 at t1.
Lerp(tq, t0, t1, p0, p1) ==
    RAdd(RMul(RDiv(RSub(p1, p0), RSub(t1, t0)), RSub(tq, t0)), p0)

\* C10: on a path whose times ascend strictly from 0, location_at(0) is the
\* first waypoint's position, location_at(t_max()) the last one's, location_at
\* strictly between two consecutive waypoint times is the linear
\* interpolation of those two waypoints on every axis, and location_at
\* outside the sampled range is the position of the nearest end waypoint.
C10_LocationAt ==
    (loc.op = "location_at"
        /\ Txyz(loc.path)[1][1] = RZero
        /\ StrictlyAscending(Column(Txyz(loc.path), 1))) =>
        LET w == Txyz(loc.path)
            n == Len(w)
        IN  /\ loc.t = RZero => loc.result = Position(w[1])
            /\ loc.t = w[n][1] => loc.result = Position(w[n])
            /\ \A i \in 1..(n - 1) :
                  (RLt(w[i][1], loc.t) /\ RLt(loc.t, w[i + 1][1])) =>
                      \A c \in 1..3 :
                          loc.result[c] = Lerp(loc.t, w[i][1], w[i + 1][1],
                                               w[i][c + 1], w[i + 1][c + 1])
            /\ RLt(loc.t, w[1][1]) => loc.result = Position(w[1])
            /\ RLt(w[n][1], loc.t) => loc.result = Position(w[n])

\* A position as the Point3 location_at returns holds it.
Single(pos) == Point3(pos[1], pos[2], pos[3])

\* C10, in single precision: on a path whose times ascend strictly from 0,
\* location_at returns, rounded per axis to the single precision of a Point3,
\* the first waypoint's position at 0, the last one's at t_max(), strictly
\* between two consecutive waypoint times the linear interpolation of those
\* two waypoints, and outside the sampled range the position of the nearest
\* end waypoint.
C10_LocationAtSingle ==
    (loc.op = "location_at"
        /\ Txyz(loc.path)[1][1] = RZero
        /\ StrictlyAscending(Column(Txyz(loc.path), 1))) =>
        LET w == Txyz(loc.path)
            n == Len(w)
        IN  /\ loc.t = RZero => loc.result = Single(Position(w[1]))
            /\ loc.t = w[n][1] => loc.result = Single(Position(w[n]))
            /\ \A i \in 1..(n - 1) :
                  (RLt(w[i][1], loc.t) /\ RLt(loc.t, w[i + 1][1])) =>
                      \A c \in 1..3 :
                          loc.result[c] = F32(Lerp(loc.t, w[i][1], w[i + 1][1],
                                                   w[i][c + 1], w[i + 1][c + 1]))
            /\ RLt(loc.t, w[1][1]) => loc.result = Single(Position(w[1]))
            /\ RLt(w[n][1], loc.t) => loc.result = Single(Position(w[n]))

\* location_at has been called strictly between the second and third waypoint
\* of a three-waypoint path and returned a position that is neither's, with
\* an x that is not the interpolated float but its rounding.
C10_Witness ==
    /\ loc.op = "location_at"
    /\ Txyz(loc.path)[1][1] = RZero
    /\ StrictlyAscending(Column(Txyz(loc.path), 1))
    /\ Len(Txyz(loc.path)) = 3
    /\ RLt(Txyz(loc.path)[2][1], loc.t)
    /\ RLt(loc.t, Txyz(loc.path)[3][1])
    /\ loc.result # Position(Txyz(loc.path)[2])
    /\ loc.result # Position(Txyz(loc.path)[3])
    /\ loc.result[1] # Lerp(loc.t, Txyz(loc.path)[2][1], Txyz(loc.path)[3][1],
                            Txyz(loc.path)[2][2], Txyz(loc.path)[3][2])

\* location_at has been called at time 0 on a path whose first waypoint has
\* a z that single precision does not hold.
C10_WitnessEnd ==
    /\ loc.op = "location_at"
    /\ Txyz(loc.path)[1][1] = RZero
    /\ StrictlyAscending(Column(Txyz(loc.path), 1))
    /\ loc.t = RZero
    /\ loc.result # Position(Txyz(loc.path)[1])

\* One call fed with the result of the call before it, at the same p.
Chained(i) ==
    /\ viz[i + 1].arg = viz[i].result
    /\ viz[i + 1].p = viz[i].p
    /\ viz[i + 1].fn # viz[i].fn

\* C11: compute_sigma and compute_volume_size are mutual inverses at every
\* containment p: either one applied to the other's result returns the
\* other's argument.
C11_SigmaVolumeInverse ==
    \A i \in 1..(Len(viz) - 1) :
        Chained(i) => viz[i + 1].result = viz[i].arg

\* C11, within rounding: either one applied to the other's result returns
\* the other's argument to within the rounding of the four float operations.
C11_InverseWithinRounding ==
    \A i \in 1..(Len(viz) - 1) :
        Chained(i) => Near(viz[i + 1].result, viz[i].arg, viz[i].arg)

\* compute_volume_size has been applied to the result of compute_sigma and
\* returned a value that is not compute_sigma's argument.
C11_Witness ==
    /\ Len(viz) = 2
    /\ Chained(1)
    /\ viz[1].fn = "compute_sigma"
    /\ viz[1].result # viz[1].arg
    /\ viz[2].result # viz[1].arg

\* compute_sigma has been applied to the result of compute_volume_size.
C11_WitnessSigma ==
    /\ Len(viz) = 2
    /\ Chained(1)
    /\ viz[1].fn = "compute_volume_size"
    /\ viz[1].result # viz[1].arg

\* The draws of the running or finished discrete-sampling call, oldest first.
DsmLog == SourceLog(call.enc)

\* The waypoints generated before flight k's first one.
WaypointsBefore(k) == IF k = 1 THEN 0 ELSE Len(flights[1].path)

\* The draws y, z, x_dev of the i-th waypoint generated for flight k.
DrawsOf(k, i) ==
    LET base == 3 * (WaypointsBefore(k) + i - 1)
    IN  [c \in 1..3 |-> DsmLog[base + c]]

\* The nominal x of the first n generated key points: 0, then one more step
\* added for each key point.
RECURSIVE StepSums(_, _)
StepSums(n, step) ==
    IF n <= 1 THEN << RZero >>
    ELSE LET xs == StepSums(n - 1, step)
         IN  Append(xs, RAdd(xs[n - 1], step))

\* C12: the discrete-sampling draws are taken in a fixed order: three per
\* generated waypoint, in the order y, z, x deviation, waypoint after
\* waypoint, and all of flight 1's before any of flight 2's; each waypoint
\* carries the deviations of its own three draws.
C12_DrawOrder ==
    DsmCalled =>
        LET enc == call.enc
            running == IF pc = "done" THEN 0 ELSE Len(m)
            built == IF Len(flights) = 0 THEN 0
                     ELSE IF Len(flights) = 1 THEN Len(flights[1].path)
                     ELSE Len(flights[1].path) + Len(flights[2].path)
        IN  /\ Len(DsmLog) = 3 * (built + running)
            /\ \A j \in 1..(built + running) :
                  /\ DsmLog[3 * j - 2].site = "y"
                  /\ DsmLog[3 * j - 1].site = "z"
                  /\ DsmLog[3 * j].site = "x_dev"
            /\ \A k \in 1..Len(flights) :
                  \A xs \in { StepSums(Len(flights[k].path), StepDx(enc, k)) } :
                  \A i \in 1..(Len(flights[k].path) - 1) :
                      LET w == flights[k].path[i]
                          d == DrawsOf(k, i)
                          nominal_x == xs[i]
                      IN  /\ w[3] = RAdd(LateralPosition(enc, k), d[1].val)
                          /\ w[4] = d[2].val
                          /\ w[2] = RSub(RAdd(nominal_x, d[3].val),
                                         RDiv(PathLength(enc, k), R(2)))
            /\ pc = "dsm_loop" =>
                  \A xs \in { StepSums(Len(m), StepDx(enc, Len(flights) + 1)) } :
                  \A i \in 1..Len(m) :
                      LET d == DrawsOf(Len(flights) + 1, i)
                      IN  /\ m[i][3] = d[1].val
                          /\ m[i][4] = d[2].val
                          /\ m[i][2] = RAdd(xs[i], d[3].val)

\* Both flights have been generated from one source with different lateral
\* deviations at their first waypoints, three waypoints each.
C12_Witness ==
    /\ pc = "done"
    /\ DsmCalled
    /\ Len(flights[1].path) = 3
    /\ Len(DsmLog) = 18
    /\ DrawsOf(1, 1)[1].val # DrawsOf(2, 1)[1].val
    /\ DrawsOf(1, 1)[1].val # DrawsOf(1, 2)[1].val

\* The source the call draws from has returned to it, draw by draw over
\* the draws both invocations made, what it returned to the invocation
\* before, as long as it was asked the same: what a source in the state the
\* invocation before found it in does.
SameSourceState ==
    LET now == SourceLog(call.enc)
        then == FirstLog(call.enc)
    IN  \A i \in 1..(IF Len(now) < Len(then) THEN Len(now) ELSE Len(then)) :
            (\A j \in 1..i : now[j].kind = then[j].kind /\ now[j].site = then[j].site)
                => now[i].val = then[i].val

\* The draw logs as the running or finished call found them.
FoundOwn == IF first.done THEN first.own_draws ELSE << >>
FoundSys == IF first.done THEN first.sys_draws ELSE << >>

\* C13: each model's make_parallel_paths is deterministic in its descriptor
\* and random source: of two invocations with equal descriptors whose source
\* is in the same state (it returns to the second, asked the same, what it
\* returned to the first), the second ends as the first did, returns Flights
\* with the same waypoints, envelopes and sizes, and has made the same draws
\* with the same values, leaving the source in the state the first left it
\* in; a call whose descriptor supplies a source draws nothing from the
\* process-wide default source, and a call whose descriptor supplies none
\* draws only from the default source.
C13_Deterministic ==
    /\ (call.fn # "none" /\ call.enc.r # "none") => sys_draws = FoundSys
    /\ (call.fn # "none" /\ call.enc.r = "none") => own_draws = FoundOwn
    /\ (/\ first.done
        /\ pc \in { "done", "raised" }
        /\ call.enc = first.call.enc
        /\ SameSourceState) =>
          /\ pc = first.pc
          /\ err = first.err
          /\ flights = first.flights
          /\ SourceLog(call.enc) = FirstLog(call.enc)

\* A discrete-sampling call whose descriptor supplies its own source has
\* returned for the second time, the source having returned the same values
\* again, with paths that differ in their drawn deviations and a truncated
\* last key point.
C13_Witness ==
    /\ first.done
    /\ pc = "done"
    /\ DsmCalled
    /\ call.enc.r = "own"
    /\ SameSourceState
    /\ Len(SourceLog(call.enc)) >= 12
    /\ SourceValues[1] # SourceValues[4]
    /\ RLt(call.enc.time_length, m[Len(m)][1])
    /\ Len(flights) = 2

\* A Reich call whose descriptor supplies its own source has returned for the
\* second time after six draws, none from the default source, the source
\* having returned the same values again.
C13_WitnessReich ==
    /\ first.done
    /\ pc = "done"
    /\ ReichCalled
    /\ call.enc.r = "own"
    /\ SameSourceState
    /\ Len(own_draws) = 12
    /\ SourceValues[1] # RZero
    /\ SourceValues[5] # SourceValues[6]

\* A Reich call has returned for the second time from the default source
\* with a lateral speed of 0, the source having returned the same values
\* again.
C13_WitnessZeroSpeed ==
    /\ first.done
    /\ ReichCalled
    /\ pc = "done"
    /\ call.enc.r = "none"
    /\ SameSourceState
    /\ IsZero(RMod(SourceValues[3], RHalf))

\* A Reich call has returned for the second time from a source that had
\* gone on to other values, with other Flights than the first time.
C13_WitnessWentOn ==
    /\ first.done
    /\ ReichCalled
    /\ pc = "done"
    /\ call.enc = first.call.enc
    /\ \A i \in 1..6 : SourceLog(call.enc)[i].val # FirstLog(call.enc)[i].val
    /\ flights # first.flights

\* A Reich call with a scripted source has raised the second time, at a
\* lateral speed of 0, after it returned the first time: the source had
\* gone on to other values.
C13_WitnessRaisedLater ==
    /\ first.done
    /\ ReichCalled
    /\ pc = "raised"
    /\ first.pc = "done"
    /\ call.enc.r = "scripted"
    /\ ~SameSourceState
    /\ Len(SourceLog(call.enc)) = 4

\* A Reich call with a scripted source has raised for the second time after
\* four draws, the source having returned the same values again.
C13_WitnessRaised ==
    /\ first.done
    /\ ReichCalled
    /\ pc = "raised"
    /\ first.pc = "raised"
    /\ call.enc.r = "scripted"
    /\ SameSourceState
    /\ Len(SourceLog(call.enc)) = 4

\* Times in [0, dt_view] at which a returned path is examined: its waypoint
\* times, the midpoints between consecutive waypoints, and the quarter points
\* of the window.
WindowTimes(path, dt_view) ==
    { path[i][1] : i \in 1..Len(path) }
        \cup { RDiv(RAdd(path[i][1], path[i + 1][1]), R(2)) : i \in 1..(Len(path) - 1) }
        \cup { RMul(Q(j, 4), dt_view) : j \in 0..4 }

\* C14: in every encounter the Reich model returns, each flight's x along its
\* path is slope * (t - dt_view / 2) at every time of the window, with slope v
\* for flight 1 and v - delta_v for flight 2: linear in t, and 0 at the
\* midpoint of the window, whichever lateral key times became waypoints.
C14_LongitudinalLinear ==
    (pc = "done" /\ ReichCalled) =>
        LET enc == call.enc
            dt_view == DocumentedDtView(enc)
        IN  \A k \in 1..Len(flights) :
                LET slope == IF k = 1 THEN enc.v ELSE RSub(enc.v, enc.delta_v)
                    path == flights[k].path
                IN  /\ \A tt \in WindowTimes(path, dt_view) :
                          LocationAt(path, tt)[1]
                            = RMul(slope, RSub(tt, RDiv(dt_view, R(2))))
                    /\ LocationAt(path, RDiv(dt_view, R(2)))[1] = RZero

\* C14, within rounding: at every time of the window each flight's x is
\* slope * (t - dt_view / 2) to within the rounding of float operations on
\* values of the size of slope * dt_view, so also 0 within that at the
\* midpoint of the window.
C14_LongitudinalNearLinear ==
    (pc = "done" /\ ReichCalled) =>
        LET enc == call.enc
            dt_view == DocumentedDtView(enc)
        IN  \A k \in 1..Len(flights) :
                LET slope == IF k = 1 THEN enc.v ELSE RSub(enc.v, enc.delta_v)
                    path == flights[k].path
                    span == RMul(slope, dt_view)
                IN  /\ \A tt \in WindowTimes(path, dt_view) :
                          NearSingle(LocationAt(path, tt)[1],
                                     RMul(slope, RSub(tt, RDiv(dt_view, R(2)))), span)
                    /\ NearSingle(LocationAt(path, RDiv(dt_view, R(2)))[1], RZero, span)

\* An encounter has been returned in which flight 1 has all three lateral key
\* times as waypoints, none of them at the midpoint of the window, and the
\* flights move at different non-zero speeds.
C14_Witness ==
    /\ pc = "done"
    /\ ReichCalled
    /\ Len(flights[1].path) = 5
    /\ \A i \in 1..5 : flights[1].path[i][1] # RDiv(DocumentedDtView(call.enc), R(2))
    /\ flights[1].path[2][2] # flights[2].path[2][2]
    /\ ~IsZero(RSub(call.enc.v, call.enc.delta_v))

\* The lateral position the deviation path prescribes at time tt: nominal
\* when tt is at least the transition duration away from the overlap time,
\* else on the straight swing between nominal and y_overlap, which is reached
\* at the overlap time.  At speed 0 the transition lasts for ever and the
\* swing is flat at y_overlap.
PrescribedLateral(nominal, speed, t_overlap, y_overlap, tt) ==
    LET transition == RDiv(RAbs(RSub(y_overlap, nominal)), RAbs(speed))
        away == RAbs(RSub(tt, t_overlap))
    IN  IF IsZero(speed) THEN y_overlap
        ELSE IF RLe(transition, away) THEN nominal
        ELSE RAdd(y_overlap,
                  RMul(RSub(nominal, y_overlap), RDiv(away, transition)))

\* C15: in every encounter the Reich model returns, at every time of the
\* window each flight's location_at(t).y is what its deviation path
\* prescribes: -S_y/2 (flight 1) or +S_y/2 (flight 2) away from the swing,
\* linear towards y_overlap inside it; when the overlap time lies inside the
\* window both flights are at y_overlap at that time.
C15_LateralFollowsDeviation ==
    (pc = "done" /\ ReichCalled) =>
        LET enc == call.enc
            dt_view == DocumentedDtView(enc)
            y_overlap == SourceValues[1]
            t_overlap == RMul(SourceValues[2],
                              RDiv(RMul(RDiv(RMul(R(2), enc.lambda_y), enc.YS_y), enc.S_y),
                                   enc.lambda_y))
            inside == RLe(RZero, t_overlap) /\ RLe(t_overlap, dt_view)
        IN  \A k \in 1..Len(flights) :
                LET nominal == IF k = 1 THEN RDiv(RNeg(enc.S_y), R(2))
                               ELSE RDiv(enc.S_y, R(2))
                    speed == RSqrt(RMul(RMod(SourceValues[2 + k], RHalf),
                                        RMul(enc.YS_y, enc.YS_y)))
                    path == flights[k].path
                IN  /\ \A tt \in WindowTimes(path, dt_view) :
                          LocationAt(path, tt)[2]
                            = PrescribedLateral(nominal, speed, t_overlap, y_overlap, tt)
                    /\ inside => LocationAt(path, t_overlap)[2] = y_overlap

\* C15, within rounding: at every time of the window each flight's
\* location_at(t).y is what its deviation path prescribes to within the
\* rounding of float operations on values of the size of the positions and of
\* speed * time involved; at an overlap time inside the window both flights
\* are at y_overlap to within its rounding.
C15_LateralNearDeviation ==
    (pc = "done" /\ ReichCalled) =>
        LET enc == call.enc
            dt_view == DocumentedDtView(enc)
            y_overlap == SourceValues[1]
            t_overlap == RMul(SourceValues[2],
                              RDiv(RMul(RDiv(RMul(R(2), enc.lambda_y), enc.YS_y), enc.S_y),
                                   enc.lambda_y))
            inside == RLe(RZero, t_overlap) /\ RLe(t_overlap, dt_view)
        IN  \A k \in 1..Len(flights) :
                LET nominal == IF k = 1 THEN RDiv(RNeg(enc.S_y), R(2))
                               ELSE RDiv(enc.S_y, R(2))
                    speed == RSqrt(RMul(RMod(SourceValues[2 + k], RHalf),
                                        RMul(enc.YS_y, enc.YS_y)))
                    path == flights[k].path
                    size == RAdd(RAdd(RAbs(nominal), RAbs(y_overlap)),
                                 RMul(speed, RAdd(RAbs(t_overlap), dt_view)))
                IN  /\ \A tt \in WindowTimes(path, dt_view) :
                          NearSingle(LocationAt(path, tt)[2],
                                     PrescribedLateral(nominal, speed, t_overlap,
                                                       y_overlap, tt),
                                     size)
                    /\ inside => NearSingle(LocationAt(path, t_overlap)[2],
                                            y_overlap, y_overlap)

\* An encounter has been returned whose overlap time is strictly inside the
\* window, away from both flights' nominal positions, with flight 1's whole
\* swing inside the window and flight 2's cut by it.
C15_Witness ==
    /\ pc = "done"
    /\ ReichCalled
    /\ Len(flights[1].path) = 5
    /\ Len(flights[2].path) \in 3..4
    /\ \E i \in 2..4 :
          /\ flights[1].path[i][3] = SourceValues[1]
          /\ \E j \in 2..(Len(flights[2].path) - 1) :
                /\ flights[2].path[j][1] = flights[1].path[i][1]
                /\ flights[2].path[j][3] = SourceValues[1]
    /\ SourceValues[1] # RDiv(call.enc.S_y, R(2))
    /\ SourceValues[1] # RDiv(RNeg(call.enc.S_y), R(2))

\* The centre of an envelope: the midpoint of its corners, per axis.
Centre(f) == [c \in 1..3 |-> RDiv(RAdd(Lower(f)[c], Upper(f)[c]), R(2))]

\* C16: in the discrete-sampling model flight 1's envelope is centred on
\* (0, -lateral_separation/2, 0) and flight 2's on (0, +lateral_separation/2,
\* 0), and with sigma.x = 0 each path starts at x = -time_length *
\* ground_speed / 2 and ends at x = +time_length * ground_speed / 2, whether
\* or not dt divides time_length.
C16_CentredOnMidpoint ==
    (pc = "done" /\ DsmCalled) =>
        LET enc == call.enc
        IN  \A k \in 1..Len(flights) :
                LET ground_speed == IF k = 1 THEN enc.v1_ground ELSE enc.v2_ground
                    side == IF k = 1 THEN R(-1) ELSE R(1)
                    half == RDiv(RMul(enc.time_length, ground_speed), R(2))
                    path == flights[k].path
                IN  /\ Centre(flights[k])
                         = << RZero, RMul(side, RDiv(enc.lateral_separation, R(2))), RZero >>
                    /\ IsZero(enc.sigma[1]) =>
                          /\ path[1][2] = RNeg(half)
                          /\ path[Len(path)][2] = half

\* n * 2^-48 * |v|: an allowance for the roundings accumulated over the n
\* steps of a path whose coordinates have magnitude |v|.
StepRounding(n, v) ==
    IF IsZero(v) THEN RZero ELSE RMul(R(n), << 1, v[2] - 48, v[3], v[4] >>)

\* C16, within rounding: each envelope is centred on x = 0 and z = 0 exactly
\* and on y = -/+lateral_separation/2 to within the single-precision
\* rounding of its corners, and with sigma.x = 0 each path starts at
\* x = -time_length * ground_speed / 2 exactly and ends at
\* x = +time_length * ground_speed / 2 to within the rounding accumulated
\* over its steps, whether or not dt divides time_length.
C16_CentredWithinRounding ==
    (pc = "done" /\ DsmCalled) =>
        LET enc == call.enc
        IN  \A k \in 1..Len(flights) :
                LET ground_speed == IF k = 1 THEN enc.v1_ground ELSE enc.v2_ground
                    side == IF k = 1 THEN R(-1) ELSE R(1)
                    half == RDiv(RMul(enc.time_length, ground_speed), R(2))
                    path == flights[k].path
                    centre == Centre(flights[k])
                IN  /\ centre[1] = RZero
                    /\ centre[3] = RZero
                    /\ NearSingle(centre[2],
                                  RMul(side, RDiv(enc.lateral_separation, R(2))),
                                  RAdd(RAbs(Lower(flights[k])[2]),
                                       RAbs(Upper(flights[k])[2])))
                    /\ IsZero(enc.sigma[1]) =>
                          /\ path[1][2] = RNeg(half)
                          /\ RLe(RAbs(RSub(path[Len(path)][2], half)),
                                 StepRounding(Len(path), half))

\* A call has returned with sigma.x = 0 and deviations on y, a dt that does
\* not divide time_length, flights in opposite directions, flight 1's
\* truncated last waypoint short of +time_length * ground_speed / 2 and an
\* envelope whose midpoint on y is not -lateral_separation / 2.
C16_Witness ==
    /\ pc = "done"
    /\ DsmCalled
    /\ IsZero(call.enc.sigma[1])
    /\ ~IsZero(call.enc.sigma[2])
    /\ RLt(call.enc.time_length, m[Len(m)][1])
    /\ Lower(flights[1])[2] # Upper(flights[1])[2]
    /\ \E k \in 1..2 :
          flights[k].path[Len(flights[k].path)][2]
              # RDiv(RMul(call.enc.time_length, GroundSpeed(call.enc, k)), R(2))
    /\ Centre(flights[1])[2] # RDiv(RNeg(call.enc.lateral_separation), R(2))

\* A call has returned with sigma.x = 0 and deviations on y, a dt that does
\* not divide time_length, and flights in opposite directions.
C16_WitnessOpposite ==
    /\ pc = "done"
    /\ DsmCalled
    /\ IsZero(call.enc.sigma[1])
    /\ ~IsZero(call.enc.sigma[2])
    /\ RLt(call.enc.time_length, m[Len(m)][1])
    /\ RLt(flights[1].path[1][2], RZero)
    /\ RLt(RZero, flights[2].path[1][2])
    /\ Lower(flights[1])[2] # Upper(flights[1])[2]

\* The discrete-sampling descriptor enc describes the same physical setup as
\* the Reich descriptor reich.
SameSetup(enc, reich) ==
    /\ enc.v1_ground = reich.v
    /\ enc.v2_ground = RSub(reich.v, reich.delta_v)
    /\ enc.lateral_separation = reich.S_y
    /\ enc.aircraft_size = << reich.lambda_x, reich.lambda_y, reich.lambda_z >>

\* C17: a discrete-sampling descriptor derived from a Reich descriptor by
\* make_parallel_paths_descriptor has v1_ground = v, v2_ground = v - delta_v,
\* lateral_separation = S_y and the Reich aircraft size, and the Flights the
\* discrete-sampling model returns for it have the y and z envelope bounds of
\* the Reich Flights: [-/+S_y/2 - w, -/+S_y/2 + w] and [-h, h]; so for the
\* descriptor derived from the standard Reich descriptor, which the call
\* without an argument uses, and for those derived from wide descriptors.
C17_DerivedDescriptorMatches ==
    (pc = "done" /\ DsmCalled /\ call.enc.time_length = R(ScenarioTimeLength)) =>
        \A arg \in DerivableReich \cup { NoEncounter } :
            call.enc = make_parallel_paths_descriptor(arg) =>
                LET reich == ReichEncounter(arg)
                IN  /\ SameSetup(call.enc, reich)
                    /\ \A k \in 1..Len(flights) :
                          LET side == IF k = 1 THEN R(-1) ELSE R(1)
                              nominal == RMul(side, RDiv(reich.S_y, R(2)))
                              f == flights[k]
                          IN  /\ Lower(f)[2] = RSub(nominal, reich.w)
                              /\ Upper(f)[2] = RAdd(nominal, reich.w)
                              /\ Lower(f)[3] = RNeg(reich.h)
                              /\ Upper(f)[3] = reich.h
                              /\ Lower(f)[2] = OpIntentLBound(reich, k)[2]
                              /\ Upper(f)[2] = OpIntentUBound(reich, k)[2]
                              /\ Lower(f)[3] = OpIntentLBound(reich, k)[3]
                              /\ Upper(f)[3] = OpIntentUBound(reich, k)[3]

\* The same, with the aircraft size as a Point3 holds it: the size of the
\* Reich Flights.
SameSetupSingle(enc, reich) ==
    /\ enc.v1_ground = reich.v
    /\ enc.v2_ground = RSub(reich.v, reich.delta_v)
    /\ enc.lateral_separation = reich.S_y
    /\ enc.aircraft_size = Point3(reich.lambda_x, reich.lambda_y, reich.lambda_z)

\* C17, within rounding: the derived descriptor has v1_ground = v,
\* v2_ground = v - delta_v and lateral_separation = S_y exactly and the
\* Reich aircraft size in the single precision of a Point3, and the Flights
\* the discrete-sampling model returns for it have that size and the y and z
\* envelope bounds of the Reich Flights to within the rounding of
\* single-precision operations on values of the size of the bounds.
C17_DerivedDescriptorNear ==
    (pc = "done" /\ DsmCalled /\ call.enc.time_length = R(ScenarioTimeLength)) =>
        \A arg \in DerivableReich \cup { NoEncounter } :
            call.enc = make_parallel_paths_descriptor(arg) =>
                LET reich == ReichEncounter(arg)
                IN  /\ SameSetupSingle(call.enc, reich)
                    /\ \A k \in 1..Len(flights) :
                          LET side == IF k = 1 THEN R(-1) ELSE R(1)
                              nominal == RMul(side, RDiv(reich.S_y, R(2)))
                              f == flights[k]
                              width == RAdd(RAbs(nominal), reich.w)
                          IN  /\ f.size = FlightOver(reich, k, << >>, RZero).size
                              /\ NearSingle(Lower(f)[2], RSub(nominal, reich.w), width)
                              /\ NearSingle(Upper(f)[2], RAdd(nominal, reich.w), width)
                              /\ NearSingle(Lower(f)[3], RNeg(reich.h), reich.h)
                              /\ NearSingle(Upper(f)[3], reich.h, reich.h)
                              /\ NearSingle(Lower(f)[2], OpIntentLBound(reich, k)[2], width)
                              /\ NearSingle(Upper(f)[2], OpIntentUBound(reich, k)[2], width)
                              /\ NearSingle(Lower(f)[3], OpIntentLBound(reich, k)[3], reich.h)
                              /\ NearSingle(Upper(f)[3], OpIntentUBound(reich, k)[3], reich.h)

\* The discrete-sampling model has returned both Flights for the descriptor
\* derived from the Reich descriptor with w = 3.6, and flight 2's upper y
\* bound is not the Reich model's.
C17_Witness ==
    /\ pc = "done"
    /\ DsmCalled
    /\ \E arg \in DerivableReich :
          /\ call.enc = make_parallel_paths_descriptor(arg)
          /\ arg.enc.w # R(3)
          /\ RLt(R(3), arg.enc.w) /\ RLt(arg.enc.w, R(4))
          /\ Upper(flights[2])[2] # OpIntentUBound(arg.enc, 2)[2]
    /\ Len(flights) = 2

\* The discrete-sampling model has returned both Flights for a descriptor
\* derived from a Reich descriptor with w = 5 and h = 6.
C17_WitnessWide ==
    /\ pc = "done"
    /\ DsmCalled
    /\ call.enc = make_parallel_paths_descriptor(Encounter(WideReich(2, 3, 5, 6)))
    /\ Len(flights) = 2
    /\ Upper(flights[2])[2] = R(6)
    /\ Upper(flights[2])[3] = R(6)
    /\ call.enc.v2_ground = R(-1)


\* ---------------------------------------------------------------------------
\* C18: for a Reich descriptor with delta_v # 0 and strictly positive sizes
\* and speeds, every finished call of reich_model.make_parallel_paths has
\* returned two Flights: whatever the draws, the two lateral deviation speeds
\* included, the call has not raised.
C18_OnlyFailureIsZeroDeltaV ==
    (/\ ReichCalled
     /\ pc \in { "done", "raised" }
     /\ ~IsZero(call.enc.delta_v)
     /\ \A f \in { "S_y", "lambda_x", "lambda_y", "lambda_z", "v", "YS_y",
                   "delta_z", "w", "h", "t" } : RLt(RZero, call.enc[f]))
        => /\ pc = "done"
           /\ Len(flights) = 2

=============================================================================
